---- MODULE Spec2Model ----
(***************************************************************************)
(* Clip rendering of content-bot.                                          *)
(*   utils/processor.py          create_final_clip and its stages          *)
(*   utils/animated_captions.py  generate_animated_ass, sanitize_ass_text  *)
(* Strings of the program are TLA+ strings where only equality matters     *)
(* (paths, filter graphs, argument vectors) and sequences of one-character *)
(* strings where the code works on characters (caption text).              *)
(***************************************************************************)
EXTENDS Integers, Sequences, FiniteSets, TLC

None == "None"
\* get_average_face_position returning None (a position is a rational in 0..1)
NoFace == <<-1, 1>>

(* ---- bounds of the model ---- *)
NumTracks == 3          \* files that can lie in the BGM directory
MaxRuns == 2            \* renders of the same job in SpecRerun
MaxSegs == 2            \* transcript segments given to a caption builder
MaxWordsPerLine == 2    \* largest words_per_line setting tried
MaxFrames == 11         \* frames of the video the crop planner samples
MaxEdge == 2            \* characters tried in front of a long run of letters of a title
MaxClips == 3           \* clips the analysis hands to the loop of process_video
MaxChunks == 4          \* chunks an audio file is cut into

(* ---- program constants ---- *)
OutputWidth == 1080
OutputHeight == 1920
SampleRate == 48000
DefaultDuration == 30
ThumbnailDivisor == 3
SampleInterval == 10
TitleMax == 50
ChunkDuration == 300
MaxWorkers == 3

VARIABLES
    job,              \* arguments of create_final_clip and what the media file is
    style,            \* CAPTION_SETTINGS["style"]
    bgmDir,           \* the files of BGM_DIR
    pc,               \* position inside create_final_clip
    files,            \* files written so far (temp and output directory)
    calls,            \* the stage invocations made so far, in order
    subtitle_path, bgm_path, vertical_video, captioned_video, final_video,
    cmd,              \* the single-pass command of the optimized attempt
    result,           \* the record returned to the caller, or None
    run, prevCmd,     \* SpecRerun: number of the render, command of the previous one
    segments,         \* generate_animated_ass: the transcript segments passed in
    words_per_batch,  \* settings["words_per_line"]
    ass_pc,           \* position inside generate_animated_ass
    seg_idx,          \* number of the segment the for loop is at
    words,            \* the words of that segment
    current_word_idx, \* first word of the batch the while loop is at
    frame_idx,        \* i, the highlight frame the inner for loop is at
    ass_content,      \* the Dialogue events appended so far
    ass_file,         \* the events of the file written, or <<>>
    words_per_line,   \* generate_srt_from_segments: its words_per_line argument
    srt_pc,           \* position inside generate_srt_from_segments
    srt_seg,          \* number of the segment its for loop is at
    word_groups,      \* the word groups of that segment
    group_idx,        \* i, the group the inner for loop is at
    entry_index,      \* the number of the next entry
    srt_entries,      \* the entries appended so far
    srt_file,         \* the entries of the file written, or <<>>
    arg_seconds,      \* format_timestamp: its seconds argument
    arg_format_type,  \* its format_type argument
    fmt_pc,           \* "call", then "returned" or "raised"
    fmt_locals,       \* hours, minutes, secs and the fraction at the return
    timestamp,        \* the string returned, or None
    caption_path,     \* the caption path handed to the filter builders
    esc_pc,           \* position inside the caption burn
    vf,               \* the subtitle filters handed to the engine so far
    face_tracker_available, \* FACE_TRACKER_AVAILABLE, set when processor.py is imported
    crop_pc,          \* position inside _get_smart_crop_x and get_average_face_position
    face_detection,   \* the detector handle of the FaceTracker: "none", "open", "closed"
    cap,              \* the cv2.VideoCapture: "none", "unopened", "open", "released"
    frame_count,      \* frames grabbed so far
    centers,          \* the face centers collected, as rationals
    avg_x,            \* what get_average_face_position returned, or None
    crop_x,           \* the expression _get_smart_crop_x holds
    crop_error,       \* e of line 56: where the exception caught came from, or None
    caption_title,    \* clip_info.get("caption_title"): its characters, or Absent
    clip_number,      \* the clip_number argument
    title_pc,         \* position of create_final_clip between its two naming blocks
    base_name_opt,    \* base_name of _create_final_clip_optimized
    base_name_seq,    \* base_name of the sequential pipeline
    clips,            \* the clips of the analysis: for each, whether transcript segments fall inside it
    batch_pc,         \* position inside the loop of process_video
    batch_i,          \* i of enumerate(clips, 1)
    outputs,          \* the results appended so far
    batch_log,        \* the guarded calls made so far, with their outcome
    conc_jobs,        \* the arguments of the concurrent create_final_clip calls, by caller
    conc_pc,          \* position of each caller inside create_final_clip
    disk,             \* the files of the temp and output directories: path to content
    accesses,         \* the file accesses made so far: caller, path, read or write
    conc_result,      \* what each call returned
    num_chunks,       \* num_chunks of transcribe_audio
    chunk_pc,         \* position of transcribe_audio: "pool", "merge", "done"
    chunk_state,      \* per chunk index: "queued", "running", "finished", "collected"
    chunk_res,        \* per chunk index: what process_chunk_task returned
    results,          \* the (idx, start_ts, res) triples collected, in completion order
    all_segments      \* the merged segment list

inputVars == <<job, style, bgmDir>>
localVars == <<subtitle_path, bgm_path, vertical_video, captioned_video, final_video, cmd>>
rerunVars == <<run, prevCmd>>
pipeVars == <<job, style, bgmDir, pc, files, calls, subtitle_path, bgm_path,
              vertical_video, captioned_video, final_video, cmd, result, run, prevCmd>>
srtVars == <<words_per_line, srt_pc, srt_seg, word_groups, group_idx, entry_index,
             srt_entries, srt_file>>
fmtVars == <<arg_seconds, arg_format_type, fmt_pc, fmt_locals, timestamp>>
escVars == <<caption_path, esc_pc, vf>>
assVars == <<words_per_batch, ass_pc, seg_idx, words, current_word_idx, frame_idx,
             ass_content, ass_file>>
capVars == <<segments, assVars, srtVars, fmtVars, escVars>>
cropVars == <<face_tracker_available, crop_pc, face_detection, cap, frame_count,
              centers, avg_x, crop_x, crop_error>>
titleVars == <<caption_title, clip_number, title_pc, base_name_opt, base_name_seq>>
batchVars == <<clips, batch_pc, batch_i, outputs, batch_log>>
concVars == <<conc_jobs, conc_pc, disk, accesses, conc_result>>
chunkVars == <<num_chunks, chunk_pc, chunk_state, chunk_res, results, all_segments>>
extraVars == <<cropVars, titleVars, batchVars, concVars, chunkVars>>
vars == <<pipeVars, capVars, extraVars>>

(***************************************************************************)
(* Inputs                                                                  *)
(***************************************************************************)
Tracks == 1..NumTracks

\* stem of the t-th file of the BGM directory
TrackStem(t) ==
    CASE t % 3 = 1 -> "upbeat_energy_" \o ToString(t)
      [] t % 3 = 2 -> "upbeat_hype_" \o ToString(t)
      [] OTHER     -> "lofi_" \o ToString(t)

TrackPath(t) == "bgm/" \o TrackStem(t) \o (IF t % 2 = 1 THEN ".mp3" ELSE ".wav")

\* pattern in f.stem.lower(): the keywords that are substrings of the stem
StemContains(t, pattern) ==
    CASE t % 3 = 1 -> pattern \in {"upbeat", "energy"}
      [] t % 3 = 2 -> pattern \in {"upbeat", "hype"}
      [] OTHER     -> pattern \in {"lofi"}

\* clip_info["mood"]: absent, a known mood in mixed case, an unknown mood
Moods == {None, "Energetic", "weird"}
Lower(m) == IF m = "Energetic" THEN "energetic" ELSE m

\* what the face tracker does on the media file
CropInputs ==
    { [avail |-> FALSE, face |-> "none"], [avail |-> TRUE, face |-> "none"],
      [avail |-> TRUE, face |-> "throws"], [avail |-> TRUE, face |-> "0.25"] }

\* what ffprobe answers for the media file: a duration, or a failure
ProbeFails == -1
Probes == {ProbeFails, 45}

Jobs ==
    [ video : {"seg.mp4"}, base : {"01_clip"}, segments : {<<>>, <<1>>},
      mood : Moods, crop : CropInputs, probe : Probes ]

(***************************************************************************)
(* Helpers of processor.py                                                 *)
(***************************************************************************)
\* _get_video_duration: every file of the job is a rendering of the same clip
GetVideoDuration(path) == IF job.probe = ProbeFails THEN DefaultDuration ELSE job.probe

GetSmartCropX(video) ==
    IF job.crop.avail /\ job.crop.face \notin {"none", "throws"}
    THEN "(in_w*" \o job.crop.face \o ")-(out_w/2)"
    ELSE "(in_w-out_w)/2"

\* a caption file named after the attempt
SubtitlePathPerRun ==
    "temp/" \o job.base \o "_" \o ToString(run)
    \o (IF style = "animated" THEN ".ass" ELSE ".srt")

\* the paths of the job's files
SubtitlePath == "temp/" \o job.base \o (IF style = "animated" THEN ".ass" ELSE ".srt")
VerticalPath == "temp/" \o job.base \o "_vertical.mp4"
CaptionedPath == "temp/" \o job.base \o "_captioned.mp4"
FinalVideoPath == "out/" \o job.base \o ".mp4"
ThumbnailPath == "out/" \o job.base \o "_thumbnail.jpg"
CaptionTextPath == "out/" \o job.base \o "_caption.txt"

JobMood == IF job.mood = None THEN "chill" ELSE job.mood

MoodPatterns(mood) ==
    CASE Lower(mood) = "energetic" -> <<"energetic", "upbeat", "hype", "energy">>
      [] Lower(mood) = "chill"     -> <<"chill", "lofi", "relax", "calm">>
      [] OTHER                     -> <<Lower(mood)>>

Matching(pattern) == {t \in bgmDir : StemContains(t, pattern)}

\* select_bgm_by_mood: every value random.choice can return
SelectBgmByMood(mood) ==
    LET patterns == MoodPatterns(mood)
        hits == {i \in 1..Len(patterns) : Matching(patterns[i]) # {}}
    IN  IF bgmDir = {} THEN {None}
        ELSE IF hits # {}
             THEN LET first == CHOOSE i \in hits : \A k \in hits : i <= k
                  IN  {TrackPath(t) : t \in Matching(patterns[first])}
             ELSE {TrackPath(t) : t \in bgmDir}

RECURSIVE Join(_, _)
Join(parts, sep) ==
    IF parts = <<>> THEN ""
    ELSE IF Len(parts) = 1 THEN parts[1]
    ELSE parts[1] \o sep \o Join(Tail(parts), sep)

\* _get_subtitle_filter_string; the job's paths hold no quote, colon or backslash
SubtitleFilterString(path) ==
    IF style = "animated"
    THEN "subtitles='" \o path \o "'"
    ELSE "subtitles='" \o path \o "':force_style='FontName=Segoe UI Semibold,FontSize=72,"
         \o "PrimaryColour=&H00FFFFFF,OutlineColour=&H00000000,BackColour=&H80000000,"
         \o "Outline=3,Shadow=2,Alignment=2,MarginV=120'"

\* _get_audio_mix_filter: the three chains of the mix, in the order written
AudioMixChains(duration) ==
    << "[1:a]volume=0.15,aloop=loop=-1:size=" \o ToString(duration * SampleRate) \o "[bgm]",
       "[0:a]volume=1.0[original]",
       "[original][bgm]amix=inputs=2:duration=first[aout]" >>

AudioMixFilter(duration) == Join(AudioMixChains(duration), ";")

\* a video chain that crops before it scales
VideoFiltersCropFirst(sub, fs) ==
    << "crop=" \o ToString(OutputWidth) \o ":" \o ToString(OutputHeight) \o ":"
          \o GetSmartCropX(job.video) \o ":0",
       "scale=-1:" \o ToString(OutputHeight) >>
    \o (IF sub # None /\ sub \in fs THEN <<SubtitleFilterString(sub)>> ELSE <<>>)

\* the video chain of the single-pass graph; fs: the files on disk
VideoFilters(sub, fs) ==
    << "scale=-1:" \o ToString(OutputHeight),
       "crop=" \o ToString(OutputWidth) \o ":" \o ToString(OutputHeight) \o ":"
          \o GetSmartCropX(job.video) \o ":0" >>
    \o (IF sub # None /\ sub \in fs THEN <<SubtitleFilterString(sub)>> ELSE <<>>)

\* a command that maps the source audio although a track is mixed in
OptimizedCmdMapsSource(sub, bgm, fs) ==
    LET video_filter_complex == "[0:v]" \o Join(VideoFilters(sub, fs), ",") \o "[vout]"
        audio_filter_complex ==
            IF bgm # None THEN ";" \o AudioMixFilter(GetVideoDuration(job.video)) ELSE ""
        audio_map == "0:a"
        inputs == <<"-i", job.video>> \o (IF bgm # None THEN <<"-i", bgm>> ELSE <<>>)
        full == video_filter_complex \o audio_filter_complex
    IN  [ filter |-> full,
          video_filters |-> VideoFilters(sub, fs),
          audio_chains |-> IF bgm # None
                           THEN AudioMixChains(GetVideoDuration(job.video)) ELSE <<>>,
          argv |-> <<"ffmpeg", "-y">> \o inputs
                   \o <<"-filter_complex", full, "-map", "[vout]", "-map", audio_map,
                        "-c:v", "libx264", "-crf", "18", "-preset", "slow",
                        "-pix_fmt", "yuv420p", "-c:a", "aac", "-b:a", "192k",
                        FinalVideoPath>> ]

\* the command _create_final_clip_optimized builds: filter graph and argument
\* vector; video_filters and audio_chains are the parts the graph is joined from
OptimizedCmd(sub, bgm, fs) ==
    LET video_filter_complex == "[0:v]" \o Join(VideoFilters(sub, fs), ",") \o "[vout]"
        audio_filter_complex ==
            IF bgm # None THEN ";" \o AudioMixFilter(GetVideoDuration(job.video)) ELSE ""
        audio_map == IF bgm # None THEN "[aout]" ELSE "0:a"
        inputs == <<"-i", job.video>> \o (IF bgm # None THEN <<"-i", bgm>> ELSE <<>>)
        full == video_filter_complex \o audio_filter_complex
    IN  [ filter |-> full,
          video_filters |-> VideoFilters(sub, fs),
          audio_chains |-> IF bgm # None
                           THEN AudioMixChains(GetVideoDuration(job.video)) ELSE <<>>,
          argv |-> <<"ffmpeg", "-y">> \o inputs
                   \o <<"-filter_complex", full, "-map", "[vout]", "-map", audio_map,
                        "-c:v", "libx264", "-crf", "18", "-preset", "slow",
                        "-pix_fmt", "yuv420p", "-c:a", "aac", "-b:a", "192k",
                        FinalVideoPath>> ]

\* one entry of the log of invocations: the function, the tier it ran in
\* ("opt" or "seq"), its input and output file and its exit code
Call(fn, tier, src, dst, rc) ==
    [fn |-> fn, tier |-> tier, src |-> src, dst |-> dst, rc |-> rc,
     sub |-> None, bgm |-> None, ts |-> <<0, 1>>, filter |-> None]

ExitCodes == {0, 1}

\* no command built yet, nothing returned yet
NoCmd == [filter |-> "", video_filters |-> <<>>, audio_chains |-> <<>>, argv |-> <<>>]
NoResult == [video |-> None, thumbnail |-> None, caption_file |-> None, mood |-> None]

\* the record both paths return (lines 535-541 and 641-647)
RenderResult ==
    [video |-> FinalVideoPath, thumbnail |-> ThumbnailPath,
     caption_file |-> CaptionTextPath, mood |-> JobMood]

\* generate_thumbnail with timestamp None: the frame at duration / 3
ThumbnailCall(tier, video, rc) ==
    [Call("generate_thumbnail", tier, video, ThumbnailPath, rc)
        EXCEPT !.ts = <<GetVideoDuration(video), ThumbnailDivisor>>]

(***************************************************************************)
(* State after the caller has assembled the job                            *)
(***************************************************************************)
\* generate_srt_from_segments is not running
SrtIdle ==
    /\ words_per_line = 1 /\ srt_pc = "idle" /\ srt_seg = 0 /\ word_groups = <<>>
    /\ group_idx = 0 /\ entry_index = 1 /\ srt_entries = <<>> /\ srt_file = <<>>

\* format_timestamp is not being called on its own
NoLocals == [hours |-> 0, minutes |-> 0, secs |-> 0, frac |-> 0]
FmtIdle ==
    /\ arg_seconds = <<0, 1>> /\ arg_format_type = "srt" /\ fmt_pc = "idle"
    /\ fmt_locals = NoLocals /\ timestamp = None

\* no caption is being burnt
EscIdle == caption_path = <<>> /\ esc_pc = "idle" /\ vf = <<>>

\* generate_animated_ass is not running
AssIdle ==
    /\ words_per_batch = 1 /\ ass_pc = "idle" /\ seg_idx = 0
    /\ words = <<>> /\ current_word_idx = 0 /\ frame_idx = 0
    /\ ass_content = <<>> /\ ass_file = <<>>

CapIdle == segments = <<>> /\ AssIdle /\ SrtIdle /\ FmtIdle /\ EscIdle

\* _get_smart_crop_x is not running
CropIdle ==
    /\ face_tracker_available = FALSE /\ crop_pc = "idle" /\ face_detection = "none"
    /\ cap = "none" /\ frame_count = 0 /\ centers = <<>> /\ avg_x = NoFace
    /\ crop_x = None /\ crop_error = None

\* no base name is being derived
TitleIdle ==
    /\ caption_title = <<>> /\ clip_number = 1 /\ title_pc = "idle"
    /\ base_name_opt = <<>> /\ base_name_seq = <<>>

\* process_video is not in its loop over the clips
BatchIdle ==
    /\ clips = <<>> /\ batch_pc = "idle" /\ batch_i = 1 /\ outputs = <<>>
    /\ batch_log = <<>>

\* no concurrent calls of create_final_clip
ConcIdle ==
    /\ conc_jobs = <<>> /\ conc_pc = <<>> /\ disk = <<>> /\ accesses = {}
    /\ conc_result = <<>>

\* transcribe_audio is not running
ChunkIdle ==
    /\ num_chunks = 0 /\ chunk_pc = "idle" /\ chunk_state = <<>> /\ chunk_res = <<>>
    /\ results = <<>> /\ all_segments = <<>>

ExtraIdle == CropIdle /\ TitleIdle /\ BatchIdle /\ ConcIdle /\ ChunkIdle

Init ==
    /\ CapIdle /\ ExtraIdle
    /\ job \in Jobs
    /\ style \in {"animated", "simple"}
    /\ bgmDir \in SUBSET Tracks
    /\ pc = "start"
    /\ files = {}
    /\ calls = <<>>
    /\ subtitle_path = None /\ bgm_path = None /\ vertical_video = None
    /\ captioned_video = None /\ final_video = None
    /\ cmd = NoCmd
    /\ result = NoResult
    /\ run = 1 /\ prevCmd = NoCmd

(***************************************************************************)
(* create_final_clip: the optimized attempt inside try (lines 558-561)     *)
(***************************************************************************)
\* a create_final_clip that tries the optimized path again after a failure
OptimizedRetries == "start"

\* where control goes when _create_final_clip_optimized raises: the except
\* clause of lines 562-578 starts the sequential pipeline
OptimizedRaises == "seq_vertical"

\* a create_final_clip that swallows the error of a sequential stage and returns
SequentialSwallows == "done"

\* where control goes when a stage of the sequential pipeline raises
SequentialRaises == "raised"

\* lines 412-499: crop expression, caption file, BGM selection, command
OptPlan ==
    /\ pc = "start"
    /\ LET sub == IF job.segments # <<>> THEN SubtitlePath ELSE None
           fs == IF sub # None THEN files \cup {sub} ELSE files
       IN  /\ subtitle_path' = sub
           /\ files' = fs
           /\ \E b \in SelectBgmByMood(JobMood) :
                /\ bgm_path' = b
                /\ cmd' = OptimizedCmd(sub, b, fs)
                /\ calls' = calls
                     \o (IF sub # None
                         THEN <<Call("generate_captions", "opt", None, sub, 0)>>
                         ELSE <<>>)
                     \o <<Call("select_bgm_by_mood", "opt", None, b, 0)>>
    /\ pc' = "opt_run"
    /\ UNCHANGED <<inputVars, vertical_video, captioned_video, final_video,
                   result, rerunVars, capVars, extraVars>>

\* lines 501-507: the single engine invocation
OptRun ==
    /\ pc = "opt_run"
    /\ \E rc \in ExitCodes :
        /\ calls' = Append(calls,
                       [Call("ffmpeg_single_pass", "opt", job.video, FinalVideoPath, rc)
                           EXCEPT !.sub = subtitle_path, !.bgm = bgm_path])
        /\ files' = IF rc = 0 THEN files \cup {FinalVideoPath} ELSE files
        /\ pc' = IF rc = 0 THEN "opt_thumb" ELSE OptimizedRaises
    /\ UNCHANGED <<inputVars, localVars, result, rerunVars, capVars, extraVars>>

\* lines 509-511: thumbnail of the optimized path
OptThumb ==
    /\ pc = "opt_thumb"
    /\ \E rc \in ExitCodes :
        /\ calls' = Append(calls, ThumbnailCall("opt", FinalVideoPath, rc))
        /\ files' = IF rc = 0 THEN files \cup {ThumbnailPath} ELSE files
        /\ pc' = IF rc = 0 THEN "opt_meta" ELSE OptimizedRaises
    /\ UNCHANGED <<inputVars, localVars, result, rerunVars, capVars, extraVars>>

\* a create_final_clip that does not return the optimized result and goes on
\* with the sequential pipeline
OptMetaFallsThrough ==
    /\ pc = "opt_meta"
    /\ \E rc \in ExitCodes :
        /\ calls' = Append(calls, Call("write_caption", "opt", None, CaptionTextPath, rc))
        /\ files' = IF rc = 0 THEN files \cup {CaptionTextPath} ELSE files
        /\ pc' = "seq_vertical"
        /\ result' = IF rc = 0 THEN RenderResult ELSE result
    /\ UNCHANGED <<inputVars, localVars, rerunVars, capVars, extraVars>>

\* lines 513-541: caption text file (open/write may raise), then return
OptMeta ==
    /\ pc = "opt_meta"
    /\ \E rc \in ExitCodes :
        /\ calls' = Append(calls, Call("write_caption", "opt", None, CaptionTextPath, rc))
        /\ files' = IF rc = 0 THEN files \cup {CaptionTextPath} ELSE files
        /\ pc' = IF rc = 0 THEN "done" ELSE OptimizedRaises
        /\ result' = IF rc = 0 THEN RenderResult ELSE result
    /\ UNCHANGED <<inputVars, localVars, rerunVars, capVars, extraVars>>

(***************************************************************************)
(* create_final_clip: the sequential pipeline of the except clause         *)
(***************************************************************************)
\* lines 580-582 and convert_to_vertical
SeqVertical ==
    /\ pc = "seq_vertical"
    /\ \E rc \in ExitCodes :
        /\ calls' = Append(calls,
                       Call("convert_to_vertical", "seq", job.video, VerticalPath, rc))
        /\ files' = IF rc = 0 THEN files \cup {VerticalPath} ELSE files
        /\ vertical_video' = IF rc = 0 THEN VerticalPath ELSE vertical_video
        /\ pc' = IF rc = 0 THEN "seq_captions" ELSE SequentialRaises
    /\ UNCHANGED <<inputVars, subtitle_path, bgm_path, captioned_video, final_video,
                   cmd, result, rerunVars, capVars, extraVars>>

\* lines 584-602: caption file again, then the choice between burn and pass-through
SeqCaptions ==
    /\ pc = "seq_captions"
    /\ LET sub == IF job.segments # <<>> THEN SubtitlePath ELSE None
           fs == IF sub # None THEN files \cup {sub} ELSE files
       IN  /\ subtitle_path' = sub
           /\ files' = fs
           /\ calls' = calls \o (IF sub # None
                                 THEN <<Call("generate_captions", "seq", None, sub, 0)>>
                                 ELSE <<>>)
           /\ IF sub # None /\ sub \in fs
              THEN pc' = "seq_burn" /\ UNCHANGED captioned_video
              ELSE pc' = "seq_bgm" /\ captioned_video' = vertical_video
    /\ UNCHANGED <<inputVars, bgm_path, vertical_video, final_video, cmd, result,
                   rerunVars, capVars, extraVars>>

\* input of the caption burn (line 600)
BurnInput == vertical_video

\* line 263: the filter of the retry, without force_style
PlainSubtitleFilter(path) == "subtitles='" \o path \o "'"

\* a burn_captions that raises as soon as the styled attempt fails
SeqBurnRaisesAtOnce ==
    /\ pc = "seq_burn"
    /\ \E rc \in ExitCodes :
        /\ calls' = Append(calls,
                       [Call("burn_captions", "seq", BurnInput, CaptionedPath, rc)
                           EXCEPT !.sub = subtitle_path,
                                  !.filter = SubtitleFilterString(subtitle_path)])
        /\ files' = IF rc = 0 THEN files \cup {CaptionedPath} ELSE files
        /\ captioned_video' = IF rc = 0 THEN CaptionedPath ELSE captioned_video
        /\ pc' = IF rc = 0 THEN "seq_bgm" ELSE SequentialRaises
    /\ UNCHANGED <<inputVars, subtitle_path, bgm_path, vertical_video, final_video,
                   cmd, result, rerunVars, capVars, extraVars>>

\* burn_captions, lines 237-252: the styled attempt
SeqBurn ==
    /\ pc = "seq_burn"
    /\ \E rc \in ExitCodes :
        /\ calls' = Append(calls,
                       [Call("burn_captions", "seq", BurnInput, CaptionedPath, rc)
                           EXCEPT !.sub = subtitle_path,
                                  !.filter = SubtitleFilterString(subtitle_path)])
        /\ files' = IF rc = 0 THEN files \cup {CaptionedPath} ELSE files
        /\ captioned_video' = IF rc = 0 THEN CaptionedPath ELSE captioned_video
        /\ pc' = IF rc = 0 THEN "seq_bgm" ELSE "seq_burn_retry"
    /\ UNCHANGED <<inputVars, subtitle_path, bgm_path, vertical_video, final_video,
                   cmd, result, rerunVars, capVars, extraVars>>

\* a burn_captions that gives up silently and passes the uncaptioned video on
SeqBurnRetryDegrades ==
    /\ pc = "seq_burn_retry"
    /\ \E rc \in ExitCodes :
        /\ calls' = Append(calls,
                       [Call("burn_captions_retry", "seq", BurnInput, CaptionedPath, rc)
                           EXCEPT !.sub = subtitle_path,
                                  !.filter = PlainSubtitleFilter(subtitle_path)])
        /\ files' = IF rc = 0 THEN files \cup {CaptionedPath} ELSE files
        /\ captioned_video' = IF rc = 0 THEN CaptionedPath ELSE vertical_video
        /\ pc' = "seq_bgm"
    /\ UNCHANGED <<inputVars, subtitle_path, bgm_path, vertical_video, final_video,
                   cmd, result, rerunVars, capVars, extraVars>>

\* burn_captions, lines 254-272: the retry with the plain subtitles filter
SeqBurnRetry ==
    /\ pc = "seq_burn_retry"
    /\ \E rc \in ExitCodes :
        /\ calls' = Append(calls,
                       [Call("burn_captions_retry", "seq", BurnInput, CaptionedPath, rc)
                           EXCEPT !.sub = subtitle_path,
                                  !.filter = PlainSubtitleFilter(subtitle_path)])
        /\ files' = IF rc = 0 THEN files \cup {CaptionedPath} ELSE files
        /\ captioned_video' = IF rc = 0 THEN CaptionedPath ELSE captioned_video
        /\ pc' = IF rc = 0 THEN "seq_bgm" ELSE SequentialRaises
    /\ UNCHANGED <<inputVars, subtitle_path, bgm_path, vertical_video, final_video,
                   cmd, result, rerunVars, capVars, extraVars>>

\* lines 604-606: the background track is selected again
SeqSelectBgm ==
    /\ pc = "seq_bgm"
    /\ \E b \in SelectBgmByMood(JobMood) :
        /\ bgm_path' = b
        /\ calls' = Append(calls, Call("select_bgm_by_mood", "seq", None, b, 0))
    /\ pc' = "seq_mix"
    /\ UNCHANGED <<inputVars, files, subtitle_path, vertical_video, captioned_video,
                   final_video, cmd, result, rerunVars, capVars, extraVars>>

\* an audio stage that mixes the cropped video, losing the captions
MixInputSkipsCaptions == vertical_video

\* input of the audio stage (lines 610 and 612)
MixInput == captioned_video

\* lines 608-613: add_background_music, or shutil.copy when no track was found
SeqMix ==
    /\ pc = "seq_mix"
    /\ \E rc \in ExitCodes :
        /\ calls' = Append(calls,
                       IF bgm_path # None
                       THEN [Call("add_background_music", "seq", MixInput,
                                  FinalVideoPath, rc) EXCEPT !.bgm = bgm_path]
                       ELSE Call("copy", "seq", MixInput, FinalVideoPath, rc))
        /\ files' = IF rc = 0 THEN files \cup {FinalVideoPath} ELSE files
        /\ final_video' = IF rc = 0 THEN FinalVideoPath ELSE final_video
        /\ pc' = IF rc = 0 THEN "seq_thumb" ELSE SequentialRaises
    /\ UNCHANGED <<inputVars, subtitle_path, bgm_path, vertical_video, captioned_video,
                   cmd, result, rerunVars, capVars, extraVars>>

\* lines 615-617
SeqThumb ==
    /\ pc = "seq_thumb"
    /\ \E rc \in ExitCodes :
        /\ calls' = Append(calls, ThumbnailCall("seq", final_video, rc))
        /\ files' = IF rc = 0 THEN files \cup {ThumbnailPath} ELSE files
        /\ pc' = IF rc = 0 THEN "seq_meta" ELSE SequentialRaises
    /\ UNCHANGED <<inputVars, localVars, result, rerunVars, capVars, extraVars>>

\* lines 619-647
SeqMeta ==
    /\ pc = "seq_meta"
    /\ \E rc \in ExitCodes :
        /\ calls' = Append(calls, Call("write_caption", "seq", None, CaptionTextPath, rc))
        /\ files' = IF rc = 0 THEN files \cup {CaptionTextPath} ELSE files
        /\ pc' = IF rc = 0 THEN "done" ELSE SequentialRaises
        /\ result' = IF rc = 0 THEN RenderResult ELSE result
    /\ UNCHANGED <<inputVars, localVars, rerunVars, capVars, extraVars>>

Next ==
    \/ OptPlan \/ OptRun \/ OptThumb \/ OptMeta
    \/ SeqVertical \/ SeqCaptions \/ SeqBurn \/ SeqBurnRetry
    \/ SeqSelectBgm \/ SeqMix \/ SeqThumb \/ SeqMeta

Spec == Init /\ [][Next]_vars

(***************************************************************************)
(* The same job rendered again into an emptied output directory            *)
(***************************************************************************)
Rerun ==
    /\ pc \in {"done", "raised"}
    /\ run < MaxRuns
    /\ run' = run + 1
    /\ prevCmd' = cmd
    /\ pc' = "start"
    /\ files' = {}
    /\ calls' = <<>>
    /\ subtitle_path' = None /\ bgm_path' = None /\ vertical_video' = None
    /\ captioned_video' = None /\ final_video' = None
    /\ cmd' = NoCmd
    /\ result' = NoResult
    /\ UNCHANGED <<inputVars, capVars, extraVars>>

NextRerun == Next \/ Rerun

SpecRerun == Init /\ [][NextRerun]_vars

(***************************************************************************)
(* Reading the log of invocations                                          *)
(***************************************************************************)
Last == calls[Len(calls)]
CallsOf(fn) == {i \in DOMAIN calls : calls[i].fn = fn}
CountFn(fn) == Cardinality(CallsOf(fn))
SeqCalls == {i \in DOMAIN calls : calls[i].tier = "seq"}

\* the invocations of the external engine made by the sequential pipeline
EngineFns == {"convert_to_vertical", "burn_captions", "burn_captions_retry",
              "add_background_music", "generate_thumbnail"}
\* the stages the fallback test counts
StageFns == {"convert_to_vertical", "burn_captions", "add_background_music",
             "generate_thumbnail"}

OptEngineFailed ==
    \E i \in CallsOf("ffmpeg_single_pass") : calls[i].rc # 0
\* _create_final_clip_optimized returned its record
OptimizedReturned ==
    \E i \in CallsOf("write_caption") : calls[i].tier = "opt" /\ calls[i].rc = 0
\* the single-pass invocation of this render
OptCall == calls[CHOOSE i \in CallsOf("ffmpeg_single_pass") : TRUE]

(***************************************************************************)
(* C1  When the single-pass engine invocation fails, the sequential        *)
(* fallback runs once: no stage is ever invoked twice, the single-pass     *)
(* command is run once, and a fallback that completed with a caption file  *)
(* and a background track has invoked convert_to_vertical, burn_captions,  *)
(* add_background_music and generate_thumbnail exactly once each.          *)
(***************************************************************************)
C1_FallbackRunsOnce ==
    OptEngineFailed =>
        /\ CountFn("ffmpeg_single_pass") = 1
        /\ \A fn \in StageFns : CountFn(fn) <= 1
        /\ pc \notin {"start", "opt_run", "opt_thumb", "opt_meta"}
        /\ (pc \in {"seq_meta", "done"} /\ subtitle_path # None /\ bgm_path # None)
              => \A fn \in StageFns : CountFn(fn) = 1

C1_Witness ==
    /\ OptEngineFailed /\ pc = "done"
    /\ subtitle_path # None /\ subtitle_path \in files /\ bgm_path # None

(***************************************************************************)
(* C2  (as claimed) The fallback uses the caption file and the background  *)
(* track the optimized attempt used, and targets the same output path.     *)
(***************************************************************************)
C2_SameSelections ==
    \A i \in SeqCalls :
        /\ calls[i].fn \in {"burn_captions", "burn_captions_retry"}
              => calls[i].sub = OptCall.sub
        /\ calls[i].fn = "add_background_music"
              => calls[i].bgm = OptCall.bgm /\ calls[i].dst = OptCall.dst
        /\ calls[i].fn = "copy"
              => OptCall.bgm = None /\ calls[i].dst = OptCall.dst

C4_FallbackFailureTerminal ==
    /\ [](/\ CountFn("ffmpeg_single_pass") <= 1
          /\ CountFn("convert_to_vertical") <= 1
          /\ (calls # <<>> /\ Last.tier = "seq" /\ Last.rc # 0
                 /\ Last.fn # "burn_captions")
               => pc = "raised" /\ result = NoResult)
    /\ [][pc = "raised" => pc' = "raised" /\ calls' = calls /\ result' = result]_vars

C4_Witness ==
    pc = "raised" /\ CountFn("ffmpeg_single_pass") = 1 /\ CountFn("convert_to_vertical") = 1

(***************************************************************************)
(* C5  (as claimed) When the single-pass invocation succeeded, a failure   *)
(* of the thumbnail capture or of the metadata writing of the optimized    *)
(* path is terminal: it is raised and the sequential fallback does not     *)
(* run.                                                                    *)
(***************************************************************************)
C5_LateFailureTerminal ==
    \A i \in DOMAIN calls :
        (/\ calls[i].tier = "opt"
         /\ calls[i].fn \in {"generate_thumbnail", "write_caption"}
         /\ calls[i].rc # 0)
            => i = Len(calls) /\ pc = "raised" /\ SeqCalls = {}

Rerendered == run > 1 /\ cmd # NoCmd /\ prevCmd # NoCmd

C7_IdenticalCommand ==
    Rerendered => cmd.filter = prevCmd.filter /\ cmd.argv = prevCmd.argv

(***************************************************************************)
(* C7  (amended) Rendering the same job again produces the identical       *)
(* filter graph, and an argument vector that is identical except for the   *)
(* path of the background track, which select_bgm_by_mood draws at random  *)
(* among the candidate files (the sixth argument); with at most one        *)
(* candidate the whole argument vector is identical.                       *)
(***************************************************************************)
C7_IdenticalUpToTrack ==
    Rerendered =>
        /\ cmd.filter = prevCmd.filter
        /\ Len(cmd.argv) = Len(prevCmd.argv)
        /\ \A k \in DOMAIN cmd.argv : k # 6 => cmd.argv[k] = prevCmd.argv[k]
        /\ Cardinality(SelectBgmByMood(JobMood)) = 1 => cmd.argv = prevCmd.argv

C7_Witness ==
    Rerendered /\ Cardinality(SelectBgmByMood(JobMood)) > 1 /\ subtitle_path # None

(***************************************************************************)
(* C8  The stages of the sequential fallback run in the order vertical     *)
(* crop, caption burn, audio mix or copy, thumbnail, metadata file, each   *)
(* after the previous one has exited with success, and each video stage    *)
(* reads the output of the last video stage that ran.                      *)
(***************************************************************************)
StageRank(fn) ==
    CASE fn = "convert_to_vertical"  -> 1
      [] fn = "generate_captions"    -> 2
      [] fn = "burn_captions"        -> 3
      [] fn = "burn_captions_retry"  -> 4
      [] fn = "select_bgm_by_mood"   -> 5
      [] fn \in {"add_background_music", "copy"} -> 6
      [] fn = "generate_thumbnail"   -> 7
      [] OTHER                       -> 8

\* the output of the last video stage that succeeded before invocation i
LastVideo(i) ==
    LET done == {k \in SeqCalls : /\ k < i /\ calls[k].rc = 0
                                  /\ StageRank(calls[k].fn) \in {1, 3, 4, 6}}
    IN  IF done = {} THEN job.video
        ELSE calls[CHOOSE k \in done : \A m \in done : m <= k].dst

C8_SequentialOrder ==
    \A i \in SeqCalls :
        /\ \A k \in SeqCalls : k < i =>
              /\ StageRank(calls[k].fn) < StageRank(calls[i].fn)
              /\ \/ calls[k].rc = 0
                 \/ calls[k].fn = "burn_captions" /\ calls[k + 1].fn = "burn_captions_retry"
        /\ StageRank(calls[i].fn) \in {3, 6, 7} => calls[i].src = LastVideo(i)
        /\ calls[i].fn = "convert_to_vertical" => calls[i].src = job.video
        /\ calls[i].fn = "burn_captions_retry" => calls[i].src = VerticalPath
        /\ StageRank(calls[i].fn) \in {3, 4} => CountFn("convert_to_vertical") = 1
        /\ StageRank(calls[i].fn) = 7 => calls[i].src = FinalVideoPath

C8_Witness ==
    /\ pc = "done" /\ SeqCalls # {}
    /\ CountFn("burn_captions_retry") = 1 /\ CountFn("add_background_music") = 1

(***************************************************************************)
(* C9  (as claimed) Every successful return is preceded by exactly one     *)
(* thumbnail capture, taken from the final video at a third of its         *)
(* duration after that video was produced, and by the writing of the       *)
(* caption text file.                                                      *)
(***************************************************************************)
C9_OneThumbnailPerReturn ==
    pc = "done" =>
        /\ CountFn("generate_thumbnail") = 1
        /\ \A i \in CallsOf("generate_thumbnail") :
              /\ calls[i].src = FinalVideoPath
              /\ calls[i].ts = <<GetVideoDuration(FinalVideoPath), 3>>
              /\ \E k \in 1..(i - 1) :
                    /\ calls[k].dst = FinalVideoPath /\ calls[k].rc = 0
        /\ \E i \in CallsOf("write_caption") : calls[i].rc = 0

(***************************************************************************)
(* utils/time_utils.py                                                     *)
(* Times are exact rationals <<n, d>> of seconds, d > 0 (the code's floats *)
(* taken as exact).                                                        *)
(***************************************************************************)
RECURSIVE GCD(_, _)
GCD(a, b) == IF b = 0 THEN a ELSE GCD(b, a % b)
Abs(n) == IF n < 0 THEN -n ELSE n
Rat(n, d) == LET g == GCD(Abs(n), d) IN <<n \div g, d \div g>>
RAdd(a, b) == Rat(a[1] * b[2] + b[1] * a[2], a[2] * b[2])
RSub(a, b) == Rat(a[1] * b[2] - b[1] * a[2], a[2] * b[2])
RMulInt(k, a) == LET g == GCD(Abs(k), a[2]) IN Rat((k \div g) * a[1], a[2] \div g)
RDivInt(a, k) == Rat(a[1], a[2] * k)

\* Python's round(x) of a float: to the nearest integer, a tie to the even one
Round(r) ==
    LET q == r[1] \div r[2]
        rem == r[1] - q * r[2]
    IN  IF 2 * rem < r[2] THEN q
        ELSE IF 2 * rem > r[2] THEN q + 1
        ELSE IF q % 2 = 0 THEN q ELSE q + 1

\* the formats 02d and 03d
Pad2(n) == IF 0 <= n /\ n < 10 THEN "0" \o ToString(n) ELSE ToString(n)
Pad3(n) == IF n < 10 THEN "00" \o ToString(n)
           ELSE IF n < 100 THEN "0" \o ToString(n) ELSE ToString(n)

MillisPerSecond == 1000
CentisPerSecond == 100

\* fields computed from the whole seconds, with only the fraction rounded
TimestampFieldsPerField(seconds, format_type) ==
    LET unit == IF format_type = "srt" THEN MillisPerSecond ELSE CentisPerSecond
        whole == seconds[1] \div seconds[2]
        fraction == RSub(seconds, <<whole, 1>>)
    IN  [ hours |-> whole \div 3600, minutes |-> (whole % 3600) \div 60,
          secs |-> whole % 60, frac |-> Round(RMulInt(unit, fraction)) ]

\* format_timestamp, lines 20-24 and 28-32: hours, minutes, secs and the
\* millis or centiseconds
TimestampFields(seconds, format_type) ==
    IF format_type = "srt"
    THEN LET total_millis == Round(RMulInt(MillisPerSecond, seconds))
             hours == total_millis \div 3600000
             minutes == (total_millis % 3600000) \div 60000
             secs == (total_millis % 60000) \div 1000
             millis == total_millis % 1000
         IN  [hours |-> hours, minutes |-> minutes, secs |-> secs, frac |-> millis]
    ELSE LET total_cs == Round(RMulInt(CentisPerSecond, seconds))
             hours == total_cs \div 360000
             minutes == (total_cs % 360000) \div 6000
             secs == (total_cs % 6000) \div 100
             centiseconds == total_cs % 100
         IN  [hours |-> hours, minutes |-> minutes, secs |-> secs, frac |-> centiseconds]

\* a formatter that takes every unknown format type for "srt"
FormatTimestampDefaultsToSrt(seconds, format_type) ==
    IF format_type = "ass"
    THEN LET f == TimestampFields(seconds, "ass")
         IN  ToString(f.hours) \o ":" \o Pad2(f.minutes) \o ":" \o Pad2(f.secs) \o "."
             \o Pad2(f.frac)
    ELSE LET f == TimestampFields(seconds, "srt")
         IN  Pad2(f.hours) \o ":" \o Pad2(f.minutes) \o ":" \o Pad2(f.secs) \o ","
             \o Pad3(f.frac)

\* format_timestamp: the string returned, "ValueError" when it raises
FormatTimestamp(seconds, format_type) ==
    IF format_type = "srt"
    THEN LET f == TimestampFields(seconds, format_type)
         IN  Pad2(f.hours) \o ":" \o Pad2(f.minutes) \o ":" \o Pad2(f.secs) \o ","
             \o Pad3(f.frac)
    ELSE IF format_type = "ass"
    THEN LET f == TimestampFields(seconds, format_type)
         IN  ToString(f.hours) \o ":" \o Pad2(f.minutes) \o ":" \o Pad2(f.secs) \o "."
             \o Pad2(f.frac)
    ELSE "ValueError"

(***************************************************************************)
(* utils/animated_captions.py                                              *)
(* Caption text is a sequence of characters, each a one-character string;  *)
(* the runs of the builder's own markup that hold no brace or backslash    *)
(* are kept as one element.  The three full-width glyphs are written by    *)
(* their code points.                                                      *)
(***************************************************************************)
FwLeftBrace == "U+FF5B"
FwRightBrace == "U+FF5D"
FwBackslash == "U+FF3C"

\* a sanitizer that forgets the backslash
SanitizeAssTextBracesOnly(text) ==
    [k \in DOMAIN text |->
        CASE text[k] = "{"  -> FwLeftBrace
          [] text[k] = "}"  -> FwRightBrace
          [] OTHER          -> text[k]]

\* a sanitizer that writes parentheses and a slash
SanitizeAssTextAscii(text) ==
    [k \in DOMAIN text |->
        CASE text[k] = "{"  -> "("
          [] text[k] = "}"  -> ")"
          [] text[k] = "\\" -> "/"
          [] OTHER          -> text[k]]

\* sanitize_ass_text
SanitizeAssText(text) ==
    [k \in DOMAIN text |->
        CASE text[k] = "{"  -> FwLeftBrace
          [] text[k] = "}"  -> FwRightBrace
          [] text[k] = "\\" -> FwBackslash
          [] OTHER          -> text[k]]

\* str.strip(): leading and trailing whitespace removed
RECURSIVE LStrip(_)
LStrip(t) == IF t # <<>> /\ Head(t) = " " THEN LStrip(Tail(t)) ELSE t
RECURSIVE RStrip(_)
RStrip(t) == IF t # <<>> /\ t[Len(t)] = " " THEN RStrip(SubSeq(t, 1, Len(t) - 1)) ELSE t
Strip(t) == RStrip(LStrip(t))

\* str.split(): the maximal runs of non-whitespace characters
RECURSIVE SplitFrom(_, _)
SplitFrom(t, word) ==
    IF t = <<>> THEN (IF word = <<>> THEN <<>> ELSE <<word>>)
    ELSE IF Head(t) = " "
         THEN (IF word = <<>> THEN <<>> ELSE <<word>>) \o SplitFrom(Tail(t), <<>>)
         ELSE SplitFrom(Tail(t), Append(word, Head(t)))
Split(t) == SplitFrom(t, <<>>)

\* the tags of lines 95: highlight colour and scale, back to the primary colour
HighlightOpen == <<"{", "\\", "c&H00FFFF", "\\", "fscx120", "\\", "fscy120", "}">>
HighlightClose == <<"{", "\\", "c&H00FFFFFF", "\\", "fscx100", "\\", "fscy100", "}">>

\* lines 90-99: the text of highlight frame i (from 0) of a batch
RECURSIVE FormatWords(_, _, _)
FormatWords(batch_words, i, j) ==
    IF j >= Len(batch_words) THEN <<>>
    ELSE LET w_sanitized == SanitizeAssText(batch_words[j + 1])
         IN  (IF j = i
              THEN HighlightOpen \o w_sanitized \o HighlightClose \o <<" ">>
              ELSE w_sanitized \o <<" ">>)
             \o FormatWords(batch_words, i, j + 1)
\* a frame text that always marks the first word of the batch
FormattedTextFirstActive(batch_words, i) == Strip(FormatWords(batch_words, 0, 0))

FormattedText(batch_words, i) == Strip(FormatWords(batch_words, i, 0))

Min(a, b) == IF a < b THEN a ELSE b
Max(a, b) == IF a > b THEN a ELSE b

\* the transcript texts tried
Texts ==
    { <<>>,
      <<" ", " ">>,
      <<"x">>,
      <<"a", " ", "{", "\\", "b", "}", "W">>,
      <<" ", "a", "b", " ", " ", "}", "{", " ">>,
      <<"a", " ", "\\", " ", "}", "c", " ", "{">>,
      <<"H", "(", " ", "{", "\\", "c", "}", "W", " ", "\\", "N">> }

\* segment k lasts 1 s or 1.25 s and starts at 2(k-1) s
SegDurations == {<<1, 1>>, <<5, 4>>}
SegmentAt(k, text, dur) ==
    [start |-> <<2 * (k - 1), 1>>, end |-> RAdd(<<2 * (k - 1), 1>>, dur), text |-> text]
SegmentLists ==
    UNION { { [k \in 1..n |-> SegmentAt(k, c[k].text, c[k].dur)] :
                c \in [1..n -> [text : Texts, dur : SegDurations]] } : n \in 0..MaxSegs }

PipeIdle ==
    /\ job = [video |-> "seg.mp4", base |-> "01_clip", segments |-> <<>>, mood |-> None,
              crop |-> [avail |-> FALSE, face |-> "none"], probe |-> ProbeFails]
    /\ style = "animated" /\ bgmDir = {} /\ pc = "idle" /\ files = {} /\ calls = <<>>
    /\ subtitle_path = None /\ bgm_path = None /\ vertical_video = None
    /\ captioned_video = None /\ final_video = None
    /\ cmd = NoCmd /\ result = NoResult /\ run = 1 /\ prevCmd = NoCmd

\* generate_animated_ass has been called (lines 28-56)
AssInit ==
    /\ PipeIdle /\ ExtraIdle /\ SrtIdle /\ FmtIdle /\ EscIdle
    /\ segments \in SegmentLists
    /\ words_per_batch \in 1..MaxWordsPerLine
    /\ ass_pc = "segment" /\ seg_idx = 1
    /\ words = <<>> /\ current_word_idx = 0 /\ frame_idx = 0
    /\ ass_content = <<>> /\ ass_file = <<>>

\* lines 58-71: the next segment; one without words is skipped
AssSegment ==
    /\ ass_pc = "segment"
    /\ seg_idx <= Len(segments)
    /\ LET text == Strip(segments[seg_idx].text)
           ws == Split(text)
       IN  IF ws = <<>>
           THEN /\ seg_idx' = seg_idx + 1
                /\ UNCHANGED <<ass_pc, words, current_word_idx>>
           ELSE /\ words' = ws
                /\ current_word_idx' = 0
                /\ ass_pc' = "batch"
                /\ UNCHANGED seg_idx
    /\ UNCHANGED <<pipeVars, extraVars, srtVars, fmtVars, escVars,
                   segments, words_per_batch, frame_idx, ass_content, ass_file>>

\* line 72: the while loop's test
AssBatch ==
    /\ ass_pc = "batch"
    /\ IF current_word_idx < Len(words)
       THEN /\ ass_pc' = "frame"
            /\ frame_idx' = 0
            /\ UNCHANGED seg_idx
       ELSE /\ ass_pc' = "segment"
            /\ seg_idx' = seg_idx + 1
            /\ UNCHANGED frame_idx
    /\ UNCHANGED <<pipeVars, extraVars, srtVars, fmtVars, escVars,
                   segments, words_per_batch, words, current_word_idx,
                   ass_content, ass_file>>

\* an event whose frames are as long as if the batch were full
DialogueEventNominalBatch(seg, ws, idx, i) ==
    LET seg_start == segments[seg].start
        seg_end == segments[seg].end
        num_words == Len(ws)
        duration == RSub(seg_end, seg_start)
        time_per_word == RDivInt(duration, Max(num_words, 1))
        batch_end_idx == Min(idx + words_per_batch, num_words)
        batch_words == SubSeq(ws, idx + 1, batch_end_idx)
        batch_start_time == RAdd(seg_start, RMulInt(idx, time_per_word))
        batch_end_time == RAdd(seg_start, RMulInt(batch_end_idx, time_per_word))
        batch_duration == RSub(batch_end_time, batch_start_time)
        time_per_batch_word == RDivInt(batch_duration, words_per_batch)
        frame_start == RAdd(batch_start_time, RMulInt(i, time_per_batch_word))
        frame_end == RAdd(batch_start_time, RMulInt(i + 1, time_per_batch_word))
    IN  [ seg |-> seg, first |-> idx, active |-> i,
          start |-> FormatTimestamp(frame_start, "ass"),
          end |-> FormatTimestamp(frame_end, "ass"),
          text |-> FormattedText(batch_words, i),
          frame_start |-> frame_start, frame_end |-> frame_end,
          batch_start_time |-> batch_start_time, batch_end_time |-> batch_end_time ]

\* lines 74-104: one Dialogue event; seg, first and active record where it
\* comes from, the last four fields the times it was computed from
DialogueEvent(seg, ws, idx, i) ==
    LET seg_start == segments[seg].start
        seg_end == segments[seg].end
        num_words == Len(ws)
        duration == RSub(seg_end, seg_start)
        time_per_word == RDivInt(duration, Max(num_words, 1))
        batch_end_idx == Min(idx + words_per_batch, num_words)
        batch_words == SubSeq(ws, idx + 1, batch_end_idx)
        batch_start_time == RAdd(seg_start, RMulInt(idx, time_per_word))
        batch_end_time == RAdd(seg_start, RMulInt(batch_end_idx, time_per_word))
        batch_duration == RSub(batch_end_time, batch_start_time)
        time_per_batch_word == RDivInt(batch_duration, Len(batch_words))
        frame_start == RAdd(batch_start_time, RMulInt(i, time_per_batch_word))
        frame_end == RAdd(batch_start_time, RMulInt(i + 1, time_per_batch_word))
    IN  [ seg |-> seg, first |-> idx, active |-> i,
          start |-> FormatTimestamp(frame_start, "ass"),
          end |-> FormatTimestamp(frame_end, "ass"),
          text |-> FormattedText(batch_words, i),
          frame_start |-> frame_start, frame_end |-> frame_end,
          batch_start_time |-> batch_start_time, batch_end_time |-> batch_end_time ]

\* the variables the loops of lines 72-106 are steered by
loopVars == <<ass_pc, frame_idx, current_word_idx>>

\* a loop that steps one word too far after a batch
AssFrameControlSkipsWord ==
    /\ ass_pc = "frame"
    /\ LET batch_len == Min(current_word_idx + words_per_batch, Len(words))
                           - current_word_idx
       IN  IF frame_idx + 1 < batch_len
           THEN /\ frame_idx' = frame_idx + 1
                /\ UNCHANGED <<ass_pc, current_word_idx>>
           ELSE /\ current_word_idx' = current_word_idx + words_per_batch + 1
                /\ ass_pc' = "batch"
                /\ UNCHANGED frame_idx

\* lines 84 and 106: the next pass of the inner for loop or, after the last
\* word of the batch, current_word_idx += words_per_batch
AssFrameControl ==
    /\ ass_pc = "frame"
    /\ LET batch_len == Min(current_word_idx + words_per_batch, Len(words))
                           - current_word_idx
       IN  IF frame_idx + 1 < batch_len
           THEN /\ frame_idx' = frame_idx + 1
                /\ UNCHANGED <<ass_pc, current_word_idx>>
           ELSE /\ current_word_idx' = current_word_idx + words_per_batch
                /\ ass_pc' = "batch"
                /\ UNCHANGED frame_idx

\* lines 84-106: one pass of the inner for loop
AssFrame ==
    /\ AssFrameControl
    /\ ass_content' = Append(ass_content,
                         DialogueEvent(seg_idx, words, current_word_idx, frame_idx))
    /\ UNCHANGED <<pipeVars, extraVars, srtVars, fmtVars, escVars,
                   segments, words_per_batch, seg_idx, words, ass_file>>

\* lines 108-111
AssWrite ==
    /\ ass_pc = "segment"
    /\ seg_idx > Len(segments)
    /\ ass_file' = ass_content
    /\ ass_pc' = "done"
    /\ UNCHANGED <<pipeVars, extraVars, srtVars, fmtVars, escVars,
                   segments, words_per_batch, seg_idx, words, current_word_idx,
                   frame_idx, ass_content>>

AssNext == AssSegment \/ AssBatch \/ AssFrame \/ AssWrite

SpecAss == AssInit /\ [][AssNext]_vars

(***************************************************************************)
(* C10  In the animated caption file every character of every source word  *)
(* appears at its place, in word order, with each brace and backslash      *)
(* replaced by its full-width glyph; the only raw braces and backslashes   *)
(* of a line are those of the builder's two highlight tags, which stand    *)
(* unsanitized around the active word.                                     *)
(***************************************************************************)
RawChars == {"{", "}", "\\"}

FullWidthOf(c) ==
    IF c = "{" THEN "U+FF5B" ELSE IF c = "}" THEN "U+FF5D"
    ELSE IF c = "\\" THEN "U+FF3C" ELSE c

\* the words of the batch an event belongs to, as the transcript has them
SourceBatch(e) ==
    LET ws == Split(segments[e.seg].text)
    IN  SubSeq(ws, e.first + 1, Min(e.first + words_per_batch, Len(ws)))

\* the position in an event's text at which word j (from 1) starts
RECURSIVE WordOffset(_, _)
WordOffset(e, j) ==
    IF j = 1 THEN (IF e.active = 0 THEN Len(HighlightOpen) ELSE 0)
    ELSE WordOffset(e, j - 1) + Len(SourceBatch(e)[j - 1]) + 1
         + (IF e.active = j - 2 THEN Len(HighlightClose) ELSE 0)
         + (IF e.active = j - 1 THEN Len(HighlightOpen) ELSE 0)

RawCount(t) == Cardinality({k \in DOMAIN t : t[k] \in RawChars})

EventSanitized(e) ==
    LET src == SourceBatch(e)
        a == e.active + 1
        openAt == WordOffset(e, a) - Len(HighlightOpen)
        closeAt == WordOffset(e, a) + Len(src[a])
    IN  /\ \A j \in DOMAIN src : \A k \in DOMAIN src[j] :
              e.text[WordOffset(e, j) + k] = FullWidthOf(src[j][k])
        /\ SubSeq(e.text, openAt + 1, openAt + Len(HighlightOpen)) = HighlightOpen
        /\ SubSeq(e.text, closeAt + 1, closeAt + Len(HighlightClose)) = HighlightClose
        /\ RawCount(e.text) = RawCount(HighlightOpen) + RawCount(HighlightClose)

AsciiOf(c) ==
    IF c = "{" THEN "(" ELSE IF c = "}" THEN ")" ELSE IF c = "\\" THEN "/" ELSE c

CountIn(t, c) == Cardinality({k \in DOMAIN t : t[k] = c})

RECURSIVE CountInWords(_, _)
CountInWords(ws, c) ==
    IF ws = <<>> THEN 0 ELSE CountIn(Head(ws), c) + CountInWords(Tail(ws), c)

MaxPathLen == 3
PathChars == {"a", "'", ":", "\\", "/"}
Extensions == {".srt", ".ass", ".ASS"}
CaptionPaths ==
    { stem \o <<ext>> :
        stem \in UNION {[1..n -> PathChars] : n \in 0..MaxPathLen}, ext \in Extensions }

\* str.replace of one character
RECURSIVE Replace(_, _, _)
Replace(s, c, rep) ==
    IF s = <<>> THEN <<>>
    ELSE (IF Head(s) = c THEN rep ELSE <<Head(s)>>) \o Replace(Tail(s), c, rep)

\* an escape chain that turns backslashes into slashes last
SrtEscapedBackslashLast(srt_path) ==
    Replace(Replace(Replace(srt_path, ":", <<"\\", ":">>),
                    "'", <<"'", "\\", "'", "'">>),
            "\\", <<"/">>)

\* lines 68 and 258: srt_escaped
SrtEscaped(srt_path) ==
    Replace(Replace(Replace(srt_path, "\\", <<"/">>),
                    ":", <<"\\", ":">>),
            "'", <<"'", "\\", "'", "'">>)

\* line 70: str(srt_path).lower().endswith(".ass")
LowerExt(ext) == IF ext = ".ASS" THEN ".ass" ELSE ext
IsAss(srt_path) == srt_path # <<>> /\ LowerExt(srt_path[Len(srt_path)]) = ".ass"

ForceStyle ==
    "FontName=Segoe UI Semibold,FontSize=72,PrimaryColour=&H00FFFFFF,"
    \o "OutlineColour=&H00000000,BackColour=&H80000000,Outline=3,Shadow=2,"
    \o "Alignment=2,MarginV=120"

\* _get_subtitle_filter_string on characters
GetSubtitleFilterString(srt_path) ==
    LET srt_escaped == SrtEscaped(srt_path)
        is_ass == IsAss(srt_path)
    IN  IF is_ass
        THEN <<"subtitles=", "'">> \o srt_escaped \o <<"'">>
        ELSE <<"subtitles=", "'">> \o srt_escaped
             \o <<"'", ":", "force_style=", "'", ForceStyle, "'">>

\* burn_captions, lines 258-262: the filter of the second attempt
SimpleSubtitleFilter(srt_path) ==
    LET srt_escaped == SrtEscaped(srt_path)
    IN  <<"subtitles=", "'">> \o srt_escaped \o <<"'">>

EscInit ==
    /\ PipeIdle /\ ExtraIdle /\ segments = <<>> /\ AssIdle /\ SrtIdle /\ FmtIdle
    /\ caption_path \in CaptionPaths
    /\ esc_pc = "optimized"
    /\ vf = <<>>

\* _create_final_clip_optimized, lines 457-460 and the engine's exit
EscOptimized ==
    /\ esc_pc = "optimized"
    /\ vf' = Append(vf, [site |-> "optimized",
                         filter |-> GetSubtitleFilterString(caption_path)])
    /\ \E rc \in ExitCodes : esc_pc' = IF rc = 0 THEN "done" ELSE "burn_captions"
    /\ UNCHANGED <<pipeVars, extraVars, segments, assVars, srtVars, fmtVars, caption_path>>

\* burn_captions, lines 237-252
EscBurn ==
    /\ esc_pc = "burn_captions"
    /\ vf' = Append(vf, [site |-> "burn_captions",
                         filter |-> GetSubtitleFilterString(caption_path)])
    /\ \E rc \in ExitCodes : esc_pc' = IF rc = 0 THEN "done" ELSE "retry"
    /\ UNCHANGED <<pipeVars, extraVars, segments, assVars, srtVars, fmtVars, caption_path>>

\* burn_captions, lines 254-269
EscBurnRetry ==
    /\ esc_pc = "retry"
    /\ vf' = Append(vf, [site |-> "burn_captions_retry",
                         filter |-> SimpleSubtitleFilter(caption_path)])
    /\ \E rc \in ExitCodes : esc_pc' = IF rc = 0 THEN "done" ELSE "raised"
    /\ UNCHANGED <<pipeVars, extraVars, segments, assVars, srtVars, fmtVars, caption_path>>

EscNext == EscOptimized \/ EscBurn \/ EscBurnRetry

SpecEsc == EscInit /\ [][EscNext]_vars

(***************************************************************************)
(* C12  Every subtitle filter handed to the engine (by the optimized       *)
(* graph and by both attempts of burn_captions) holds, for each single     *)
(* quote of the caption path, the four characters '\'' at that quote's     *)
(* place, and no other quote between the two quotes the builder puts       *)
(* around the path; read as the engine reads it, the literal opened by     *)
(* the builder's quote ends at the builder's closing quote.                *)
(***************************************************************************)
QuoteEscape == <<"'", "\\", "'", "'">>
PrefixLen == Len(<<"subtitles=", "'">>)

\* the number of characters a path character is escaped to
CharWidth(c) == IF c = "'" THEN Len(QuoteEscape) ELSE IF c = ":" THEN 2 ELSE 1

\* the number of characters the first j - 1 characters of a path are escaped to
RECURSIVE EscOffset(_, _)
EscOffset(p, j) == IF j <= 1 THEN 0 ELSE EscOffset(p, j - 1) + CharWidth(p[j - 1])

\* the engine's reading of a filter value from position k: quotes toggle a
\* literal, outside it a backslash takes the next character, and the value ends
\* at a separator.  The result is the position after the value, 0 when a literal
\* is left open.
RECURSIVE ValueEnd(_, _, _)
ValueEnd(f, k, quoted) ==
    IF k > Len(f) THEN (IF quoted THEN 0 ELSE k)
    ELSE IF quoted THEN ValueEnd(f, k + 1, f[k] # "'")
    ELSE IF f[k] = "\\" THEN ValueEnd(f, k + 2, FALSE)
    ELSE IF f[k] = "'" THEN ValueEnd(f, k + 1, TRUE)
    ELSE IF f[k] \in {":", ",", ";", "[", "]"} THEN k
    ELSE ValueEnd(f, k + 1, FALSE)

FilterEscaped(f, p) ==
    LET last == PrefixLen + EscOffset(p, Len(p) + 1)
        quoteAt == {PrefixLen + EscOffset(p, j) + 1 : j \in {i \in DOMAIN p : p[i] = "'"}}
    IN  /\ f[PrefixLen] = "'" /\ f[last + 1] = "'"
        /\ \A q \in quoteAt : SubSeq(f, q, q + Len(QuoteEscape) - 1) = QuoteEscape
        /\ \A k \in (PrefixLen + 1)..last :
              f[k] = "'" => \E q \in quoteAt : k \in {q, q + 2, q + 3}
        /\ ValueEnd(f, PrefixLen, FALSE) = last + 2

C12_QuotesEscaped ==
    \A n \in DOMAIN vf : FilterEscaped(vf[n].filter, caption_path)

\* all three sites have built their filter for a path with two quotes and a backslash
C12_Witness ==
    /\ Len(vf) = 3
    /\ {vf[n].site : n \in DOMAIN vf}
          = {"optimized", "burn_captions", "burn_captions_retry"}
    /\ Cardinality({i \in DOMAIN caption_path : caption_path[i] = "'"}) = 2
    /\ \E i \in DOMAIN caption_path : caption_path[i] = "\\"

(***************************************************************************)
(* utils/processor.py: generate_srt_from_segments                          *)
(***************************************************************************)
RMin(a, b) == IF a[1] * b[2] <= b[1] * a[2] THEN a ELSE b

\* " ".join(words)
RECURSIVE JoinWords(_)
JoinWords(ws) ==
    IF ws = <<>> THEN <<>>
    ELSE IF Len(ws) = 1 THEN ws[1]
    ELSE ws[1] \o <<" ">> \o JoinWords(Tail(ws))

\* a grouping that leaves out a last group shorter than words_per_line
WordGroupsFullOnly(ws, wpl) ==
    [g \in 1..(Len(ws) \div wpl) |->
        JoinWords(SubSeq(ws, (g - 1) * wpl + 1, Min(g * wpl, Len(ws))))]

\* lines 190-192: word_groups
WordGroups(ws, wpl) ==
    [g \in 1..((Len(ws) + wpl - 1) \div wpl) |->
        JoinWords(SubSeq(ws, (g - 1) * wpl + 1, Min(g * wpl, Len(ws))))]

\* generate_srt_from_segments has been called (lines 155-169)
SrtInit ==
    /\ PipeIdle /\ ExtraIdle /\ AssIdle /\ FmtIdle /\ EscIdle
    /\ segments \in SegmentLists
    /\ words_per_line \in 1..MaxWordsPerLine
    /\ srt_pc = "segment" /\ srt_seg = 1
    /\ word_groups = <<>> /\ group_idx = 0
    /\ entry_index = 1
    /\ srt_entries = <<>> /\ srt_file = <<>>

\* a builder that numbers the segments it skips
SrtSegmentCountsSkipped ==
    /\ srt_pc = "segment"
    /\ srt_seg <= Len(segments)
    /\ LET text == Strip(segments[srt_seg].text)
           ws == Split(text)
       IN  IF text = <<>> \/ Len(ws) = 0
           THEN /\ srt_seg' = srt_seg + 1
                /\ entry_index' = entry_index + 1
                /\ UNCHANGED <<srt_pc, word_groups, group_idx>>
           ELSE /\ word_groups' = WordGroups(ws, words_per_line)
                /\ group_idx' = 0
                /\ srt_pc' = "group"
                /\ UNCHANGED <<srt_seg, entry_index>>
    /\ UNCHANGED <<pipeVars, extraVars, segments, assVars, fmtVars, escVars, words_per_line,
                   srt_entries, srt_file>>

\* lines 171-198: the next segment; one without text or words is skipped
SrtSegment ==
    /\ srt_pc = "segment"
    /\ srt_seg <= Len(segments)
    /\ LET text == Strip(segments[srt_seg].text)
           ws == Split(text)
       IN  IF text = <<>> \/ Len(ws) = 0
           THEN /\ srt_seg' = srt_seg + 1
                /\ UNCHANGED <<srt_pc, word_groups, group_idx>>
           ELSE /\ word_groups' = WordGroups(ws, words_per_line)
                /\ group_idx' = 0
                /\ srt_pc' = "group"
                /\ UNCHANGED srt_seg
    /\ UNCHANGED <<pipeVars, extraVars, segments, assVars, fmtVars, escVars, words_per_line,
                   entry_index, srt_entries, srt_file>>

\* an entry timed as if the segment had one group more
SrtEntryExtraSlot(seg, groups, i, index) ==
    LET seg_start == segments[seg].start
        seg_end == segments[seg].end
        seg_duration == RSub(seg_end, seg_start)
        time_per_group == RDivInt(seg_duration, Len(groups) + 1)
        group_start == RAdd(seg_start, RMulInt(i, time_per_group))
        group_end == RMin(RAdd(seg_start, RMulInt(i + 1, time_per_group)), seg_end)
    IN  [ index |-> index,
          start |-> FormatTimestamp(group_start, "srt"),
          end |-> FormatTimestamp(group_end, "srt"),
          text |-> groups[i + 1],
          seg |-> seg, group_start |-> group_start, group_end |-> group_end ]

\* lines 195-210: one entry; seg, group_start and group_end record where it
\* comes from
SrtEntry(seg, groups, i, index) ==
    LET seg_start == segments[seg].start
        seg_end == segments[seg].end
        seg_duration == RSub(seg_end, seg_start)
        time_per_group == RDivInt(seg_duration, Len(groups))
        group_start == RAdd(seg_start, RMulInt(i, time_per_group))
        group_end == RMin(RAdd(seg_start, RMulInt(i + 1, time_per_group)), seg_end)
    IN  [ index |-> index,
          start |-> FormatTimestamp(group_start, "srt"),
          end |-> FormatTimestamp(group_end, "srt"),
          text |-> groups[i + 1],
          seg |-> seg, group_start |-> group_start, group_end |-> group_end ]

\* lines 200-211: one pass of the inner for loop, or its end
SrtGroup ==
    /\ srt_pc = "group"
    /\ IF group_idx < Len(word_groups)
       THEN /\ srt_entries' = Append(srt_entries,
                                SrtEntry(srt_seg, word_groups, group_idx, entry_index))
            /\ entry_index' = entry_index + 1
            /\ group_idx' = group_idx + 1
            /\ UNCHANGED <<srt_pc, srt_seg>>
       ELSE /\ srt_pc' = "segment"
            /\ srt_seg' = srt_seg + 1
            /\ UNCHANGED <<srt_entries, entry_index, group_idx>>
    /\ UNCHANGED <<pipeVars, extraVars, segments, assVars, fmtVars, escVars, words_per_line,
                   word_groups, srt_file>>

\* lines 213-219
SrtWrite ==
    /\ srt_pc = "segment"
    /\ srt_seg > Len(segments)
    /\ srt_file' = srt_entries
    /\ srt_pc' = "done"
    /\ UNCHANGED <<pipeVars, extraVars, segments, assVars, fmtVars, escVars, words_per_line,
                   srt_seg, word_groups, group_idx, entry_index, srt_entries>>

SrtNext == SrtSegment \/ SrtGroup \/ SrtWrite

SpecSrt == SrtInit /\ [][SrtNext]_vars

(***************************************************************************)
(* C13  In the plain caption builder the batches emitted for a segment,    *)
(* concatenated in emission order, are the segment's words: a prefix of    *)
(* them while the segment is being emitted and all of them once it is      *)
(* done, so no word is dropped, duplicated or reordered; every batch but   *)
(* the last of a segment has exactly words_per_line words.                 *)
(***************************************************************************)
EntriesOfSeg(s) == SelectSeq(srt_entries, LAMBDA e : e.seg = s)

RECURSIVE WordsOfEntries(_)
WordsOfEntries(es) ==
    IF es = <<>> THEN <<>> ELSE Split(Head(es).text) \o WordsOfEntries(Tail(es))

C13_BatchesAreTheWords ==
    \A s \in DOMAIN segments :
        LET es == EntriesOfSeg(s)
            emitted == WordsOfEntries(es)
            source == Split(segments[s].text)
        IN  /\ Len(emitted) <= Len(source)
            /\ emitted = SubSeq(source, 1, Len(emitted))
            /\ (srt_pc = "done" \/ s < srt_seg) => emitted = source
            /\ \A n \in 1..(Len(es) - 1) : Len(Split(es[n].text)) = words_per_line
            /\ es # <<>> => Len(Split(es[Len(es)].text)) \in 1..words_per_line

\* a file whose last batch of a segment is shorter than the batches before it
C13_Witness ==
    /\ srt_pc = "done"
    /\ \E s \in DOMAIN segments :
          LET es == SelectSeq(srt_file, LAMBDA e : e.seg = s)
          IN  /\ Len(es) >= 2
              /\ Len(Split(es[Len(es)].text)) < words_per_line

(***************************************************************************)
(* C14  The entries of the plain caption file are numbered 1, 2, 3, ...    *)
(* in the order they are written, across all segments, and the counter is  *)
(* always one more than the number of entries; a segment whose text is     *)
(* empty or whitespace only has no entry, and passing it leaves the        *)
(* counter as it is.                                                       *)
(***************************************************************************)
C14_IndicesConsecutive ==
    /\ \A n \in DOMAIN srt_entries : srt_entries[n].index = n
    /\ entry_index = Len(srt_entries) + 1
    /\ \A s \in DOMAIN segments :
          Strip(segments[s].text) = <<>> => EntriesOfSeg(s) = <<>>
    /\ srt_pc = "done" => srt_file = srt_entries

\* a file whose entries come after a whitespace-only segment
C14_Witness ==
    /\ srt_pc = "done"
    /\ Len(segments) >= 2
    /\ segments[1].text = <<" ", " ">>
    /\ Len(srt_file) >= 2
    /\ srt_file[1].seg = 2 /\ srt_file[1].index = 1

(***************************************************************************)
(* C15  In the animated track a batch of k words yields exactly k          *)
(* consecutive events, with the active word 1, 2, ..., k in that order;    *)
(* the text of the i-th event is the k sanitized words of the batch in     *)
(* order, separated by one space, with the highlight tag in front of the   *)
(* i-th word, the closing tag behind it, and no other tag.                 *)
(***************************************************************************)
BatchSize(e) == Len(SourceBatch(e))

\* the text of an event without the two tags around its active word
Unmarked(e) ==
    LET a == e.active + 1
        openAt == WordOffset(e, a) - Len(HighlightOpen)
        closeAt == WordOffset(e, a) + Len(SourceBatch(e)[a])
    IN  SubSeq(e.text, 1, openAt)
        \o SubSeq(e.text, openAt + Len(HighlightOpen) + 1, closeAt)
        \o SubSeq(e.text, closeAt + Len(HighlightClose) + 1, Len(e.text))

OneActiveWord(e) ==
    LET src == SourceBatch(e)
        a == e.active + 1
        openAt == WordOffset(e, a) - Len(HighlightOpen)
        closeAt == WordOffset(e, a) + Len(src[a])
    IN  /\ SubSeq(e.text, openAt + 1, openAt + Len(HighlightOpen)) = HighlightOpen
        /\ SubSeq(e.text, closeAt + 1, closeAt + Len(HighlightClose)) = HighlightClose
        /\ Unmarked(e) = JoinWords([j \in DOMAIN src |->
                                      [k \in DOMAIN src[j] |-> FullWidthOf(src[j][k])]])
        /\ CountIn(e.text, "{") = 2 /\ CountIn(e.text, "}") = 2

C15_OneEventPerBatchWord ==
    /\ \A n \in DOMAIN ass_content :
          LET e == ass_content[n]
          IN  /\ e.active \in 0..(BatchSize(e) - 1)
              /\ OneActiveWord(e)
              /\ e.active > 0 =>
                    /\ n > 1
                    /\ ass_content[n - 1].seg = e.seg
                    /\ ass_content[n - 1].first = e.first
                    /\ ass_content[n - 1].active = e.active - 1
              /\ (e.active = 0 /\ n > 1) =>
                    /\ ass_content[n - 1].active = BatchSize(ass_content[n - 1]) - 1
                    /\ <<ass_content[n - 1].seg, ass_content[n - 1].first>>
                          # <<e.seg, e.first>>
    /\ (ass_pc = "done" /\ ass_file # <<>>) =>
          ass_file[Len(ass_file)].active = BatchSize(ass_file[Len(ass_file)]) - 1

\* a file with the two events of a batch of two words
C15_Witness ==
    /\ ass_pc = "done"
    /\ \E n \in DOMAIN ass_file :
          /\ ass_file[n].active = 1
          /\ BatchSize(ass_file[n]) = 2
          /\ ass_file[n].first > 0

(***************************************************************************)
(* C16  Within an animated batch the highlight frames tile the batch       *)
(* window: the first frame starts at the batch start, each frame starts    *)
(* where the frame before it ends (as times and as written timestamps),    *)
(* no frame ends before it starts, the last frame ends at the batch end,   *)
(* and the frame durations sum to the batch window; the batches of a       *)
(* segment tile the segment from its start to its end in the same way.     *)
(***************************************************************************)
RLe(a, b) == a[1] * b[2] <= b[1] * a[2]

\* the sum of the frame durations of the events m..n
RECURSIVE FrameSum(_, _)
FrameSum(m, n) ==
    IF m > n THEN <<0, 1>>
    ELSE RAdd(RSub(ass_content[n].frame_end, ass_content[n].frame_start),
              FrameSum(m, n - 1))

C16_FramesTile ==
    \A n \in DOMAIN ass_content :
        LET e == ass_content[n]
            k == BatchSize(e)
            num_words == Len(Split(segments[e.seg].text))
        IN  /\ RLe(e.frame_start, e.frame_end)
            /\ e.active = 0 => e.frame_start = e.batch_start_time
            /\ e.active > 0 =>
                  /\ ass_content[n - 1].frame_end = e.frame_start
                  /\ ass_content[n - 1].end = e.start
            /\ e.active = k - 1 =>
                  /\ e.frame_end = e.batch_end_time
                  /\ FrameSum(n - k + 1, n) = RSub(e.batch_end_time, e.batch_start_time)
            /\ e.first = 0 =>
                  /\ e.batch_start_time = segments[e.seg].start
                  /\ e.active = 0 => e.start = FormatTimestamp(segments[e.seg].start, "ass")
            /\ (e.first > 0 /\ e.active = 0) =>
                  /\ ass_content[n - 1].seg = e.seg
                  /\ ass_content[n - 1].batch_end_time = e.batch_start_time
                  /\ ass_content[n - 1].end = e.start
            /\ e.first + k = num_words =>
                  /\ e.batch_end_time = segments[e.seg].end
                  /\ e.active = k - 1 => e.end = FormatTimestamp(segments[e.seg].end, "ass")

\* a file with a segment of 1.25 s in two batches, the first of two frames
C16_Witness ==
    /\ ass_pc = "done"
    /\ \E n \in DOMAIN ass_file :
          /\ ass_file[n].first > 0
          /\ BatchSize(ass_file[n]) < words_per_batch
          /\ BatchSize(ass_file[n - 1]) = 2
          /\ RSub(segments[ass_file[n].seg].end, segments[ass_file[n].seg].start) = <<5, 4>>

(***************************************************************************)
(* Both caption builders on the same segment with the same words-per-line  *)
(* value (processor.py 433-441 hands either of them the same segments and  *)
(* the same CAPTION_SETTINGS["words_per_line"])                            *)
(***************************************************************************)
BothInit ==
    /\ PipeIdle /\ ExtraIdle /\ FmtIdle /\ EscIdle
    /\ segments \in {sl \in SegmentLists : Len(sl) <= 1}
    /\ words_per_batch \in 1..MaxWordsPerLine
    /\ words_per_line = words_per_batch
    /\ ass_pc = "segment" /\ seg_idx = 1
    /\ words = <<>> /\ current_word_idx = 0 /\ frame_idx = 0
    /\ ass_content = <<>> /\ ass_file = <<>>
    /\ srt_pc = "segment" /\ srt_seg = 1
    /\ word_groups = <<>> /\ group_idx = 0
    /\ entry_index = 1
    /\ srt_entries = <<>> /\ srt_file = <<>>

BothNext == AssNext \/ SrtNext

SpecBoth == BothInit /\ [][BothNext]_vars

\* the first event of every animated batch, in file order
BatchHeads == SelectSeq(ass_file, LAMBDA e : e.active = 0)

BothDone == ass_pc = "done" /\ srt_pc = "done"

SameWordBatches ==
    /\ Len(BatchHeads) = Len(srt_file)
    /\ \A g \in DOMAIN srt_file :
          /\ BatchHeads[g].seg = srt_file[g].seg
          /\ Split(srt_file[g].text) = SourceBatch(BatchHeads[g])

SameWindow(g) ==
    /\ BatchHeads[g].batch_start_time = srt_file[g].group_start
    /\ BatchHeads[g].batch_end_time = srt_file[g].group_end

MaxTicks == 60

\* the times tried: every half millisecond up to MaxTicks of them, the times
\* of tests/test_time_utils.py, times next to a minute and an hour, a hundred
\* hours, and two negative times
Times ==
    { Rat(n, 2000) : n \in 0..MaxTicks }
    \cup { <<1, 1>>, <<60, 1>>, <<3600, 1>>, <<3661, 1>>, <<1, 2>>, <<1001, 1000>>,
           <<1999, 1000>>, <<101, 100>>, <<199, 100>>, <<1, 8>>,
           <<119999, 2000>>, <<7199999, 2000>>, <<359999, 1>>, <<360000, 1>>,
           <<-1, 2>>, <<-3661, 1>> }

FormatTypes == {"srt", "ass", "invalid", "SRT", ""}

FmtInit ==
    /\ PipeIdle /\ ExtraIdle /\ segments = <<>> /\ AssIdle /\ SrtIdle /\ EscIdle
    /\ arg_seconds \in Times
    /\ arg_format_type \in FormatTypes
    /\ fmt_pc = "call"
    /\ fmt_locals = NoLocals
    /\ timestamp = None

\* format_timestamp, lines 19-36
FormatCall ==
    /\ fmt_pc = "call"
    /\ LET out == FormatTimestamp(arg_seconds, arg_format_type)
       IN  IF out = "ValueError"
           THEN /\ fmt_pc' = "raised"
                /\ UNCHANGED <<fmt_locals, timestamp>>
           ELSE /\ fmt_pc' = "returned"
                /\ fmt_locals' = TimestampFields(arg_seconds, arg_format_type)
                /\ timestamp' = out
    /\ UNCHANGED <<pipeVars, extraVars, segments, assVars, srtVars, escVars, arg_seconds,
                   arg_format_type>>

SpecFmt == FmtInit /\ [][FormatCall]_vars

(***************************************************************************)
(* C18  For a non-negative time format_timestamp returns the mixed-radix   *)
(* digits of one total count of subunits (milliseconds for "srt",          *)
(* centiseconds for "ass") that is a nearest integer to the time in        *)
(* subunits: minutes and seconds are in 0..59 and the fraction in 0..999   *)
(* or 0..99, a carry goes into the next field, minutes, seconds and the    *)
(* fraction are written with two, two and three or two digits, the srt     *)
(* hour with at least two digits and the ass hour without padding; 3661 s  *)
(* gives 01:01:01,000 and 1:01:01.00.                                      *)
(***************************************************************************)
TwoDigits(n) == ToString(n \div 10) \o ToString(n % 10)
ThreeDigits(n) == ToString(n \div 100) \o TwoDigits(n % 100)

SubunitsOf(format_type) == IF format_type = "srt" THEN 1000 ELSE 100

\* the subunit count the returned fields stand for
TotalOf(f, unit) == ((f.hours * 60 + f.minutes) * 60 + f.secs) * unit + f.frac

NonNegative(t) == t[1] >= 0

\* n is a nearest integer to the rational t
Nearest(n, t) == 2 * Abs(n * t[2] - t[1]) <= t[2]

C18_MixedRadixFields ==
    (fmt_pc = "returned" /\ NonNegative(arg_seconds)) =>
        LET unit == SubunitsOf(arg_format_type)
            f == fmt_locals
        IN  /\ Nearest(TotalOf(f, unit), RMulInt(unit, arg_seconds))
            /\ f.hours >= 0 /\ f.minutes \in 0..59 /\ f.secs \in 0..59
            /\ f.frac \in 0..(unit - 1)
            /\ arg_format_type = "srt" =>
                  /\ timestamp = (IF f.hours < 100 THEN TwoDigits(f.hours)
                                  ELSE ToString(f.hours))
                                 \o ":" \o TwoDigits(f.minutes) \o ":" \o TwoDigits(f.secs)
                                 \o "," \o ThreeDigits(f.frac)
                  /\ Len(timestamp) >= 12
                  /\ arg_seconds = <<3661, 1>> => timestamp = "01:01:01,000"
            /\ arg_format_type = "ass" =>
                  /\ timestamp = ToString(f.hours)
                                 \o ":" \o TwoDigits(f.minutes) \o ":" \o TwoDigits(f.secs)
                                 \o "." \o TwoDigits(f.frac)
                  /\ f.hours < 10 => Len(timestamp) = 10
                  /\ arg_seconds = <<3661, 1>> => timestamp = "1:01:01.00"

\* 59.9995 s returned as one minute: the carry has gone through two fields
C18_Witness ==
    /\ fmt_pc = "returned"
    /\ arg_seconds = <<119999, 2000>>
    /\ arg_format_type = "srt"
    /\ timestamp = "00:01:00,000"

(***************************************************************************)
(* C19  (as claimed) A non-negative time exactly halfway between two       *)
(* subunit counts is rounded up, whether the lower count is even or odd.   *)
(***************************************************************************)
Halfway(t) == LET q == t[1] \div t[2] IN 2 * (t[1] - q * t[2]) = t[2]

C19_HalfAwayFromZero ==
    (fmt_pc = "returned" /\ NonNegative(arg_seconds)) =>
        LET unit == SubunitsOf(arg_format_type)
            subunits == RMulInt(unit, arg_seconds)
        IN  Halfway(subunits) =>
                TotalOf(fmt_locals, unit) = (subunits[1] \div subunits[2]) + 1

(***************************************************************************)
(* C20  format_timestamp raises, for every time, when the format type is   *)
(* neither "srt" nor "ass", and returns no string then; for "srt" and      *)
(* "ass" it returns one.                                                   *)
(***************************************************************************)
C20_UnknownFormatRaises ==
    fmt_pc # "call" =>
        IF arg_format_type \in {"srt", "ass"}
        THEN fmt_pc = "returned" /\ timestamp # None
        ELSE fmt_pc = "raised" /\ timestamp = None

\* the call with the format type "SRT" and a negative time has raised
C20_Witness ==
    /\ fmt_pc = "raised"
    /\ arg_format_type = "SRT"
    /\ arg_seconds = <<-1, 2>>

(***************************************************************************)
(* C21  In the compiled single-pass command a selected background track    *)
(* means: the graph holds the audio-loop chain and the two-input mix       *)
(* chain, the track is the second input, and audio is mapped from [aout].  *)
(* No selected track means: the graph holds no audio chain, there is one   *)
(* input, and audio is mapped from 0:a.  In both cases the map of [vout]   *)
(* comes before the audio map.                                             *)
(***************************************************************************)
\* the track the optimized attempt selected
OptBgmCalls ==
    {i \in CallsOf("select_bgm_by_mood") : calls[i].tier = "opt"}
OptBgm == calls[CHOOSE i \in OptBgmCalls : TRUE].dst

LoopFragment ==
    "[1:a]volume=0.15,aloop=loop=-1:size="
        \o ToString(GetVideoDuration(job.video) * SampleRate) \o "[bgm]"
MixFragment == "[original][bgm]amix=inputs=2:duration=first[aout]"

Range(s) == {s[i] : i \in DOMAIN s}
\* the positions of a flag in an argument vector
Flags(argv, flag) == {i \in DOMAIN argv : argv[i] = flag}
\* the graph a video chain and the audio chains join to
GraphOf(vfs, chains) ==
    "[0:v]" \o Join(vfs, ",") \o "[vout]"
        \o (IF chains = <<>> THEN "" ELSE ";" \o Join(chains, ";"))

C21_AudioMapping ==
    (cmd # NoCmd /\ OptBgmCalls # {}) =>
        LET a == cmd.argv
            ins == Flags(a, "-i")
            maps == Flags(a, "-map")
        IN  /\ cmd.filter = GraphOf(cmd.video_filters, cmd.audio_chains)
            /\ \E f \in Flags(a, "-filter_complex") : a[f + 1] = cmd.filter
            /\ Cardinality(maps) = 2
            /\ \E v, u \in maps :
                /\ v < u
                /\ a[v + 1] = "[vout]"
                /\ a[u + 1] = (IF OptBgm # None THEN "[aout]" ELSE "0:a")
            /\ IF OptBgm # None
               THEN /\ LoopFragment \in Range(cmd.audio_chains)
                    /\ MixFragment \in Range(cmd.audio_chains)
                    /\ Cardinality(ins) = 2
                    /\ \E i, k \in ins :
                         i < k /\ a[i + 1] = job.video /\ a[k + 1] = OptBgm
               ELSE /\ LoopFragment \notin Range(cmd.audio_chains)
                    /\ MixFragment \notin Range(cmd.audio_chains)
                    /\ cmd.audio_chains = <<>>
                    /\ Cardinality(ins) = 1
                    /\ \E i \in ins : a[i + 1] = job.video

\* the engine ran a command that mixes a selected track in
C21_Witness ==
    /\ CallsOf("ffmpeg_single_pass") # {}
    /\ OptBgmCalls # {} /\ OptBgm # None
    /\ cmd.audio_chains # <<>>

(***************************************************************************)
(* C22  The compiled video chain begins with scale to the target height,   *)
(* then crop to the target size with the geometry expression; a caption    *)
(* burn is appended if and only if a caption file was generated and is on  *)
(* disk, and the same condition decides whether the sequential fallback    *)
(* runs its caption-burn stage.                                            *)
(***************************************************************************)
CaptionOnDisk == job.segments # <<>> /\ SubtitlePath \in files
\* the sequential pipeline is past the choice of lines 598-602
PastBurnChoice ==
    \/ pc \in {"seq_burn_retry", "seq_bgm", "seq_mix", "seq_thumb", "seq_meta"}
    \/ \E i \in SeqCalls : calls[i].fn \in {"burn_captions", "select_bgm_by_mood"}

C22_ScaleCropThenCaptions ==
    /\ cmd # NoCmd =>
         LET vfs == cmd.video_filters
         IN  /\ Len(vfs) >= 2
             /\ vfs[1] = "scale=-1:" \o ToString(OutputHeight)
             /\ vfs[2] = "crop=" \o ToString(OutputWidth) \o ":"
                           \o ToString(OutputHeight) \o ":"
                           \o GetSmartCropX(job.video) \o ":0"
             /\ Len(vfs) = (IF CaptionOnDisk THEN 3 ELSE 2)
             /\ CaptionOnDisk => vfs[3] = SubtitleFilterString(SubtitlePath)
    /\ CallsOf("burn_captions") # {} => CaptionOnDisk
    /\ (PastBurnChoice /\ CaptionOnDisk) => CallsOf("burn_captions") # {}

\* a fallback that burnt captions after a single-pass command with a caption
\* burn in its chain had failed
C22_Witness ==
    /\ Len(cmd.video_filters) = 3
    /\ OptEngineFailed
    /\ \E i \in CallsOf("burn_captions") : calls[i].rc = 0

(***************************************************************************)
(* C27  burn_captions invokes the engine at most twice: the styled attempt *)
(* and, only if that exits non-zero, one retry with the plain subtitles    *)
(* filter on the same input, caption file and output.  It raises if and    *)
(* only if both attempts exit non-zero and returns the output otherwise.   *)
(***************************************************************************)
BurnRaised ==
    pc = "raised" /\ calls # <<>> /\ Last.fn \in {"burn_captions", "burn_captions_retry"}
BurnReturned ==
    \E i \in CallsOf("burn_captions") \cup CallsOf("burn_captions_retry") :
        calls[i].rc = 0

C27_StyledThenPlainRetry ==
    /\ CountFn("burn_captions") <= 1
    /\ CountFn("burn_captions_retry") <= 1
    /\ \A i \in CallsOf("burn_captions") :
         /\ calls[i].filter = SubtitleFilterString(calls[i].sub)
         /\ calls[i].rc # 0 =>
              IF i = Len(calls) THEN pc = "seq_burn_retry"
              ELSE calls[i + 1].fn = "burn_captions_retry"
         /\ calls[i].rc = 0 => CallsOf("burn_captions_retry") = {}
    /\ \A i \in CallsOf("burn_captions_retry") :
         /\ i > 1
         /\ calls[i - 1].fn = "burn_captions" /\ calls[i - 1].rc # 0
         /\ calls[i].src = calls[i - 1].src
         /\ calls[i].sub = calls[i - 1].sub
         /\ calls[i].dst = calls[i - 1].dst
         /\ calls[i].filter = PlainSubtitleFilter(calls[i].sub)
         /\ calls[i].rc # 0 => BurnRaised
    /\ BurnRaised <=>
         /\ \E i \in CallsOf("burn_captions") : calls[i].rc # 0
         /\ \E i \in CallsOf("burn_captions_retry") : calls[i].rc # 0
    /\ BurnReturned => captioned_video = CaptionedPath /\ ~BurnRaised

\* the styled attempt failed and the retry succeeded
C27_Witness ==
    /\ \E i \in CallsOf("burn_captions") : calls[i].rc # 0
    /\ \E i \in CallsOf("burn_captions_retry") : calls[i].rc = 0
    /\ captioned_video = CaptionedPath

(***************************************************************************)
(* _get_smart_crop_x (processor.py) and FaceTracker.get_average_face_      *)
(* position (face_tracker.py): the crop planner with its two handles       *)
(***************************************************************************)
CenterCrop == "(in_w-out_w)/2"

\* str() of a float that is a multiple of 1/8: "0.25", "0.5", "1.0"
FloatRepr(r) ==
    LET whole == r[1] \div r[2]
        t == ((r[1] % r[2]) * 1000) \div r[2]
    IN  ToString(whole) \o "."
          \o (IF t = 0 THEN "0"
              ELSE IF t % 100 = 0 THEN ToString(t \div 100)
              ELSE IF t % 10 = 0 THEN Pad2(t \div 10)
              ELSE Pad3(t))

\* line 53 of processor.py
FaceCrop(x) == "(in_w*" \o FloatRepr(x) \o ")-(out_w/2)"

RECURSIVE RSum(_)
RSum(s) == IF s = <<>> THEN <<0, 1>> ELSE RAdd(s[1], RSum(Tail(s)))

\* lines 85-92 of face_tracker.py: None without a detection, else the mean
\* clamped to 0..1
AveragePosition(cs) ==
    IF cs = <<>> THEN NoFace
    ELSE LET mean == RDivInt(RSum(cs), Len(cs))
         IN  IF RLe(mean, <<0, 1>>) THEN <<0, 1>>
             ELSE IF RLe(<<1, 1>>, mean) THEN <<1, 1>>
             ELSE mean

\* bbox.xmin + bbox.width / 2 of the first detection of a sampled frame
FaceCenters == {<<1, 4>>, <<3, 4>>, <<5, 4>>}

\* the variables the crop planner leaves alone
notCropVars == <<pipeVars, capVars, titleVars, batchVars, concVars, chunkVars>>

CropInit ==
    /\ PipeIdle /\ CapIdle /\ TitleIdle /\ BatchIdle /\ ConcIdle /\ ChunkIdle
    /\ face_tracker_available \in BOOLEAN
    /\ crop_pc = "start"
    /\ face_detection = "none" /\ cap = "none" /\ frame_count = 0
    /\ centers = <<>> /\ avg_x = NoFace /\ crop_x = None /\ crop_error = None

\* processor.py 41-46: the default expression, the availability test and
\* FaceTracker(), which opens the detector or raises
CropStart ==
    /\ crop_pc = "start"
    /\ crop_x' = CenterCrop
    /\ IF ~face_tracker_available
       THEN crop_pc' = "done" /\ UNCHANGED <<face_detection, crop_error>>
       ELSE \/ face_detection' = "open" /\ crop_pc' = "open_video"
               /\ UNCHANGED crop_error
            \/ crop_error' = "FaceTracker" /\ crop_pc' = "except"
               /\ UNCHANGED face_detection
    /\ UNCHANGED <<face_tracker_available, cap, frame_count, centers, avg_x, notCropVars>>

\* face_tracker.py 40-46: the capture is created; a video that cannot be
\* opened ends the call with None
CropOpenVideo ==
    /\ crop_pc = "open_video"
    /\ \E opened \in BOOLEAN :
        /\ cap' = IF opened THEN "open" ELSE "unopened"
        /\ crop_pc' = IF opened THEN "loop" ELSE "close"
    /\ centers' = <<>> /\ frame_count' = 0 /\ avg_x' = NoFace
    /\ UNCHANGED <<face_tracker_available, face_detection, crop_x, crop_error, notCropVars>>

\* what one pass of the while loop of lines 49-81 meets: the end of the video,
\* a frame that is skipped or sampled, an exception of grab or retrieve, and
\* for a sampled frame a detection, none, or an exception of the detector
FrameEvents ==
    {[kind |-> k, center |-> NoFace] :
        k \in {"end", "grab_raises", "retrieve_fails", "retrieve_raises",
               "no_detection", "detect_raises"}}
    \cup {[kind |-> "face", center |-> c] : c \in FaceCenters}

\* face_tracker.py 49-81: one pass of the while loop.  grab and retrieve are
\* outside the try of lines 63-79, the detector is inside it
CropFrame ==
    /\ crop_pc = "loop"
    /\ \E ev \in FrameEvents :
        /\ frame_count >= MaxFrames => ev.kind = "end"
        /\ IF ev.kind = "end"
           THEN crop_pc' = "release" /\ UNCHANGED <<frame_count, centers, crop_error>>
           ELSE IF ev.kind = "grab_raises"
           THEN crop_pc' = "except" /\ crop_error' = "grab"
                /\ UNCHANGED <<frame_count, centers>>
           ELSE IF frame_count % SampleInterval # 0
           THEN /\ frame_count' = frame_count + 1
                /\ UNCHANGED <<crop_pc, centers, crop_error>>
           ELSE IF ev.kind = "retrieve_fails"
           THEN crop_pc' = "release" /\ UNCHANGED <<frame_count, centers, crop_error>>
           ELSE IF ev.kind = "retrieve_raises"
           THEN crop_pc' = "except" /\ crop_error' = "retrieve"
                /\ UNCHANGED <<frame_count, centers>>
           ELSE /\ centers' = IF ev.kind = "face"
                               THEN Append(centers, ev.center) ELSE centers
                /\ frame_count' = frame_count + 1
                /\ UNCHANGED <<crop_pc, crop_error>>
    /\ UNCHANGED <<face_tracker_available, face_detection, cap, avg_x, crop_x, notCropVars>>

\* face_tracker.py 83-92: the capture is released and the position returned
CropRelease ==
    /\ crop_pc = "release"
    /\ cap' = "released"
    /\ avg_x' = AveragePosition(centers)
    /\ crop_pc' = "close"
    /\ UNCHANGED <<face_tracker_available, face_detection, frame_count, centers,
                   crop_x, crop_error, notCropVars>>

\* processor.py 48-53 and 59: tracker.close(), the face expression, return
CropClose ==
    /\ crop_pc = "close"
    /\ face_detection' = "closed"
    /\ crop_x' = IF avg_x # NoFace THEN FaceCrop(avg_x) ELSE crop_x
    /\ crop_pc' = "done"
    /\ UNCHANGED <<face_tracker_available, cap, frame_count, centers, avg_x,
                   crop_error, notCropVars>>

\* an except clause that raises the exception again
CropExceptReraises == "raised"

\* where the except clause of processor.py 56-57 leaves: at the return of 59
CropExceptReturns == "done"

\* processor.py 56-59: the exception is printed and crop_x returned as it is
CropExcept ==
    /\ crop_pc = "except"
    /\ crop_pc' = CropExceptReturns
    /\ UNCHANGED <<face_tracker_available, face_detection, cap, frame_count, centers,
                   avg_x, crop_x, crop_error, notCropVars>>

CropNext ==
    \/ CropStart \/ CropOpenVideo \/ CropFrame \/ CropRelease \/ CropClose
    \/ CropExcept

SpecCrop == CropInit /\ [][CropNext]_vars

(***************************************************************************)
(* C23  The crop planner never raises to its caller.  When no sampled      *)
(* frame has a detection, when the video cannot be opened, when the        *)
(* detector is unavailable or when detection throws, it returns exactly    *)
(* "(in_w-out_w)/2"; it returns a face expression only when at least one   *)
(* detection exists.                                                       *)
(***************************************************************************)
\* an exception reached the planner (FaceTracker() or get_average_face_position
\* raised); an exception of the detector on one frame is caught inside the
\* loop and leaves that frame without a detection
DetectionThrew == crop_error # None

C24_HandlesReleased ==
    crop_pc \in {"done", "raised"} =>
        face_detection # "open" /\ cap # "open"

(***************************************************************************)
(* The base name of the files of one clip (processor.py 415-419, 571-574)  *)
(* Titles are sequences of one-character strings; "U+00E9" stands for a    *)
(* letter outside ASCII, for which str.isalnum() is true as well.          *)
(***************************************************************************)
\* clip_info without the key caption_title
Absent == <<"absent">>

\* str.isalnum() of one character
IsAlnum(c) == c \in {"a", "c", "l", "i", "p", "Z", "U+00E9",
                     "0", "1", "2", "3", "4", "5", "6", "7", "8", "9"}

DigitChars == <<"0", "1", "2", "3", "4", "5", "6", "7", "8", "9">>
\* str(n) for n >= 0, as characters
RECURSIVE DigitsOf(_)
DigitsOf(n) ==
    IF n < 10 THEN <<DigitChars[n + 1]>>
    ELSE Append(DigitsOf(n \div 10), DigitChars[(n % 10) + 1])
\* f"{n:02d}"
Pad02d(n) == IF n < 10 THEN <<"0">> \o DigitsOf(n) ELSE DigitsOf(n)

\* f"clip_{clip_number}"
ClipDefault(n) == <<"c", "l", "i", "p", "_">> \o DigitsOf(n)

\* the generator of lines 416-417: the characters that are alphanumeric or
\* one of space, hyphen, underscore, in their order
RECURSIVE KeepSafe(_)
KeepSafe(t) ==
    IF t = <<>> THEN <<>>
    ELSE (IF IsAlnum(Head(t)) \/ Head(t) \in {" ", "-", "_"} THEN <<Head(t)>> ELSE <<>>)
         \o KeepSafe(Tail(t))

\* s[:k]
Take(s, k) == SubSeq(s, 1, Min(k, Len(s)))

\* lines 416-419
BaseNameOptimized(title, n) ==
    LET given == IF title = Absent THEN ClipDefault(n) ELSE title
        joined == KeepSafe(given)
        cut == Strip(Take(joined, TitleMax))
        safe_title == IF cut # <<>> THEN cut ELSE ClipDefault(n)
    IN  Pad02d(n) \o <<"_">> \o safe_title

\* a naming block that strips the title before it cuts it
BaseNameStripsFirst(title, n) ==
    LET given == IF title = Absent THEN ClipDefault(n) ELSE title
        joined == KeepSafe(given)
        cut == Take(Strip(joined), TitleMax)
        safe_title == IF cut # <<>> THEN cut ELSE ClipDefault(n)
    IN  Pad02d(n) \o <<"_">> \o safe_title

\* lines 571-574
BaseNameSequential(title, n) ==
    LET given == IF title = Absent THEN ClipDefault(n) ELSE title
        joined == KeepSafe(given)
        cut == Strip(Take(joined, TitleMax))
        safe_title == IF cut # <<>> THEN cut ELSE ClipDefault(n)
    IN  Pad02d(n) \o <<"_">> \o safe_title

\* the titles tried: up to MaxEdge characters, a run of letters that ends
\* around the cut, and one more character
TitleChars == {"a", "7", "U+00E9", " ", "-", "_", "/", ".", "\\"}
RECURSIVE Letters(_)
Letters(k) == IF k = 0 THEN <<>> ELSE Append(Letters(k - 1), "a")
SeqsUpTo(S, k) == UNION {[1..m -> S] : m \in 0..k}
Titles ==
    {Absent} \cup
    { front \o Letters(k) \o back :
        front \in SeqsUpTo(TitleChars, MaxEdge),
        k \in {0, TitleMax - 1, TitleMax},
        back \in {<<>>, <<"a">>, <<" ">>, <<"/">>, <<".">>} }
ClipNumbers == {1, 12}

notTitleVars == <<pipeVars, capVars, cropVars, batchVars, concVars, chunkVars>>

TitleInit ==
    /\ PipeIdle /\ CapIdle /\ CropIdle /\ BatchIdle /\ ConcIdle /\ ChunkIdle
    /\ caption_title \in Titles
    /\ clip_number \in ClipNumbers
    /\ title_pc = "start"
    /\ base_name_opt = <<>> /\ base_name_seq = <<>>

\* lines 415-419: the naming block of _create_final_clip_optimized
TitleOptimized ==
    /\ title_pc = "start"
    /\ base_name_opt' = BaseNameOptimized(caption_title, clip_number)
    /\ title_pc' = "optimized"
    /\ UNCHANGED <<caption_title, clip_number, base_name_seq, notTitleVars>>

\* lines 571-574: the naming block of the except clause, reached when the
\* optimized path has raised
TitleSequential ==
    /\ title_pc = "optimized"
    /\ base_name_seq' = BaseNameSequential(caption_title, clip_number)
    /\ title_pc' = "sequential"
    /\ UNCHANGED <<caption_title, clip_number, base_name_opt, notTitleVars>>

TitleNext == TitleOptimized \/ TitleSequential

SpecTitle == TitleInit /\ [][TitleNext]_vars

(***************************************************************************)
(* C28  For every caption_title and clip number the base name is the       *)
(* zero-padded clip number, an underscore and a non-empty title of at most *)
(* 50 characters, all of them alphanumeric, space, hyphen or underscore    *)
(* (clip_<n> when the filtered title is empty or the title is absent).  No *)
(* generated path has a separator or a ".." component, so every file lies  *)
(* directly in the temp or output directory, and the optimized and the     *)
(* sequential path derive the same base name.                              *)
(***************************************************************************)
AllowedChar(c) == IsAlnum(c) \/ c \in {" ", "-", "_"}

\* the endings of the files of one clip (lines 435-448, 510-514, 581-620),
\* each kept as one element
FileEndings ==
    {".ass", ".srt", "_vertical.mp4", "_captioned.mp4", ".mp4", "_thumbnail.jpg",
     "_caption.txt"}

\* the components a file name adds to the directory it is joined to
RECURSIVE PartsFrom(_, _)
PartsFrom(name, part) ==
    IF name = <<>> THEN (IF part = <<>> THEN <<>> ELSE <<part>>)
    ELSE IF Head(name) \in {"/", "\\"}
         THEN (IF part = <<>> THEN <<>> ELSE <<part>>) \o PartsFrom(Tail(name), <<>>)
         ELSE PartsFrom(Tail(name), Append(part, Head(name)))
PathParts(name) == PartsFrom(name, <<>>)

C28_BaseNameSafe ==
    title_pc \in {"optimized", "sequential"} =>
        LET n == clip_number
            prefix == Pad02d(n) \o <<"_">>
            b == base_name_opt
            t == SubSeq(b, Len(prefix) + 1, Len(b))
            kept == IF caption_title = Absent THEN <<>>
                    ELSE SelectSeq(caption_title, AllowedChar)
            blank == \A i \in 1..Min(TitleMax, Len(kept)) : kept[i] = " "
        IN  /\ Len(prefix) >= 3
            /\ SubSeq(b, 1, Len(prefix)) = prefix
            /\ t # <<>> /\ Len(t) <= TitleMax
            /\ \A i \in DOMAIN t : AllowedChar(t[i])
            /\ blank => t = ClipDefault(n)
            /\ \A e \in FileEndings :
                 LET name == Append(b, e)
                 IN  /\ PathParts(name) = <<name>>
                     /\ \A k \in DOMAIN name : name[k] \notin {"/", "\\"}
                     /\ SubSeq(name, 1, 2) # <<".", ".">>
            /\ title_pc = "sequential" => base_name_seq = base_name_opt

\* both naming blocks ran on a title longer than the cut that holds a
\* separator and begins with a space: the cut leaves 49 letters
C28_Witness ==
    /\ title_pc = "sequential"
    /\ caption_title # Absent
    /\ Len(caption_title) > TitleMax + 1
    /\ caption_title[1] = " " /\ caption_title[2] = "/"
    /\ Len(base_name_seq) = Len(Pad02d(clip_number)) + TitleMax

(***************************************************************************)
(* generate_animated_ass run to its end: the loops are sequential code, so *)
(* a step that can be taken is taken.  An AssFrame step is the step that   *)
(* changes loopVars, so its fairness is stated on AssFrameControl.         *)
(***************************************************************************)
SpecAssFair ==
    /\ AssInit /\ [][AssNext]_vars
    /\ WF_vars(AssSegment) /\ WF_vars(AssBatch) /\ WF_vars(AssWrite)
    /\ WF_loopVars(AssFrameControl)

(***************************************************************************)
(* C29  For every segment list and every words-per-line value of at least  *)
(* 1 the batching loop of the animated builder terminates; the number of   *)
(* Dialogue events written for a segment is that segment's word count (0   *)
(* for an empty or whitespace-only segment), and the events of a segment   *)
(* are emitted in non-decreasing order of their start times.               *)
(***************************************************************************)
EventsOfSegment(k) == {i \in DOMAIN ass_content : ass_content[i].seg = k}
\* the characters of a segment's text that are not spaces, and its word starts
WordStarts(text) ==
    {i \in DOMAIN text : text[i] # " " /\ (i = 1 \/ text[i - 1] = " ")}

AssFinished == ass_pc = "done" /\ ass_file = ass_content

OneEventPerWord ==
    AssFinished =>
        \A k \in DOMAIN segments :
            Cardinality(EventsOfSegment(k)) = Cardinality(WordStarts(segments[k].text))

StartsInOrder ==
    \A i, j \in DOMAIN ass_content :
        (i < j /\ ass_content[i].seg = ass_content[j].seg) =>
            RLe(ass_content[i].frame_start, ass_content[j].frame_start)

C29_TerminatesOneEventPerWord ==
    /\ words_per_batch >= 1 => <>AssFinished
    /\ [](words_per_batch >= 1 => OneEventPerWord /\ StartsInOrder)

\* a file written from a segment without words and a segment of three words
C29_Witness ==
    /\ AssFinished
    /\ Len(segments) = 2
    /\ Cardinality(WordStarts(segments[1].text)) = 0
    /\ Cardinality(EventsOfSegment(2)) = 3

(***************************************************************************)
(* process_video (main.py 123-191): the loop over the clips.  Each guarded *)
(* call either returns or raises; what it does inside is not modelled here.*)
(***************************************************************************)
\* one guarded call of the loop body and how it ended
Attempt(i, step, ok) == [clip |-> i, step |-> step, ok |-> ok]

\* what create_final_clip returns for clip i
ClipResult(i) == [clip_number |-> i, video |-> "out/" \o Pad2(i) \o "_clip.mp4"]

notBatchVars == <<pipeVars, capVars, cropVars, titleVars, concVars, chunkVars>>

\* lines 123-134: outputs = [] and the loop is entered with at least one clip
\* (an empty analysis returns at line 102)
BatchInit ==
    /\ PipeIdle /\ CapIdle /\ CropIdle /\ TitleIdle /\ ConcIdle /\ ChunkIdle
    /\ clips \in UNION {[1..n -> [has_segments : BOOLEAN]] : n \in 1..MaxClips}
    /\ batch_pc = "download" /\ batch_i = 1
    /\ outputs = <<>> /\ batch_log = <<>>

\* a loop that is left when a guarded call has raised
BreakAfterFailure == Len(clips) + 1

\* "continue" of lines 143 and 184: the loop goes on with the next clip
ContinueAfterFailure == batch_i + 1

\* lines 137-143: the segment download; a failure is printed and the clip skipped
BatchDownload ==
    /\ batch_pc = "download"
    /\ batch_i <= Len(clips)
    /\ \E ok \in BOOLEAN :
        /\ batch_log' = Append(batch_log, Attempt(batch_i, "download", ok))
        /\ IF ok THEN batch_pc' = "caption" /\ UNCHANGED batch_i
           ELSE batch_i' = ContinueAfterFailure /\ UNCHANGED batch_pc
    /\ UNCHANGED <<clips, outputs, notBatchVars>>

\* lines 145-163: the transcript segments of the clip and its caption; a
\* failure of the caption call is replaced by the title
BatchCaption ==
    /\ batch_pc = "caption"
    /\ \E ok \in BOOLEAN :
        batch_log' = Append(batch_log, Attempt(batch_i, "caption", ok))
    /\ batch_pc' = IF clips[batch_i].has_segments THEN "translate" ELSE "render"
    /\ UNCHANGED <<clips, batch_i, outputs, notBatchVars>>

\* lines 165-170: translation; on a failure the original text is kept
BatchTranslate ==
    /\ batch_pc = "translate"
    /\ \E ok \in BOOLEAN :
        batch_log' = Append(batch_log, Attempt(batch_i, "translate", ok))
    /\ batch_pc' = "render"
    /\ UNCHANGED <<clips, batch_i, outputs, notBatchVars>>

\* lines 172-184: create_final_clip; its result is appended, a failure is
\* printed and the clip skipped
BatchRender ==
    /\ batch_pc = "render"
    /\ \E ok \in BOOLEAN :
        /\ batch_log' = Append(batch_log, Attempt(batch_i, "render", ok))
        /\ outputs' = IF ok THEN Append(outputs, ClipResult(batch_i)) ELSE outputs
        /\ batch_i' = IF ok THEN batch_i + 1 ELSE ContinueAfterFailure
    /\ batch_pc' = "download"
    /\ UNCHANGED <<clips, notBatchVars>>

\* lines 186-191: the loop is over
BatchFinish ==
    /\ batch_pc = "download"
    /\ batch_i > Len(clips)
    /\ batch_pc' = "done"
    /\ UNCHANGED <<clips, batch_i, outputs, batch_log, notBatchVars>>

BatchNext ==
    \/ BatchDownload \/ BatchCaption \/ BatchTranslate \/ BatchRender \/ BatchFinish

SpecBatch == BatchInit /\ [][BatchNext]_vars

(***************************************************************************)
(* C26  In the loop over the clips a clip whose download or render raises  *)
(* is skipped and never aborts its siblings: every clip of the list is     *)
(* attempted whatever failed before, and the outputs returned are exactly  *)
(* the results of the clips whose render succeeded, in clip order.         *)
(***************************************************************************)
AttemptsOf(i, step) ==
    {k \in DOMAIN batch_log : batch_log[k].clip = i /\ batch_log[k].step = step}
Rendered(i) == \E k \in AttemptsOf(i, "render") : batch_log[k].ok
\* the results of the rendered clips among the first n, in clip order
RECURSIVE ResultsUpTo(_)
ResultsUpTo(n) ==
    IF n = 0 THEN <<>>
    ELSE ResultsUpTo(n - 1) \o (IF Rendered(n) THEN <<ClipResult(n)>> ELSE <<>>)

C26_FailedClipSkipped ==
    /\ batch_pc # "idle" => outputs = ResultsUpTo(Len(clips))
    /\ \A i \in DOMAIN clips :
         /\ Cardinality(AttemptsOf(i, "download")) <= 1
         /\ Cardinality(AttemptsOf(i, "render")) <= 1
    /\ \A k, m \in DOMAIN batch_log : k < m => batch_log[k].clip <= batch_log[m].clip
    /\ batch_pc = "done" =>
         \A i \in DOMAIN clips :
            /\ Cardinality(AttemptsOf(i, "download")) = 1
            /\ (\E k \in AttemptsOf(i, "download") : batch_log[k].ok)
                  <=> Cardinality(AttemptsOf(i, "render")) = 1

\* the first clip failed to download, the second to render, the third was
\* rendered
C26_Witness ==
    /\ batch_pc = "done"
    /\ Len(clips) >= 3
    /\ \E k \in AttemptsOf(1, "download") : ~batch_log[k].ok
    /\ \E k \in AttemptsOf(2, "render") : ~batch_log[k].ok
    /\ outputs = <<ClipResult(3)>>

(***************************************************************************)
(* create_final_clip called by two callers at once (processor.py 402-647). *)
(* A stage is one step; the content of a file is a term built from what    *)
(* the stage that wrote it has read.                                       *)
(***************************************************************************)
Callers == {1, 2}

\* Path(TEMP_DIR) of lines 413 and 569 is the same directory for every call
TempDir == "temp"

ReadFile(d, p) == IF p \in DOMAIN d THEN d[p] ELSE "missing"
WriteFile(d, p, c) == [q \in DOMAIN d \cup {p} |-> IF q = p THEN c ELSE d[q]]

\* a caption file named after the directory alone
ConcSubtitlePathShared(j) == TempDir \o "/captions.ass"

\* lines 435, 590
ConcSubtitlePath(j) == TempDir \o "/" \o conc_jobs[j].base \o ".ass"
\* line 581
ConcVerticalPath(j) == TempDir \o "/" \o conc_jobs[j].base \o "_vertical.mp4"
\* line 599
ConcCaptionedPath(j) == TempDir \o "/" \o conc_jobs[j].base \o "_captioned.mp4"
\* lines 448, 608
ConcFinalPath(j) == conc_jobs[j].output_dir \o "/" \o conc_jobs[j].base \o ".mp4"
\* lines 510, 616
ConcThumbnailPath(j) ==
    conc_jobs[j].output_dir \o "/" \o conc_jobs[j].base \o "_thumbnail.jpg"
\* lines 514, 620
ConcCaptionTextPath(j) ==
    conc_jobs[j].output_dir \o "/" \o conc_jobs[j].base \o "_caption.txt"

\* lines 535-541 and 641-647
ConcResult(j) ==
    [video |-> ConcFinalPath(j), thumbnail |-> ConcThumbnailPath(j),
     caption_file |-> ConcCaptionTextPath(j)]

Access(j, p, mode) == [caller |-> j, path |-> p, mode |-> mode]

notConcVars == <<pipeVars, capVars, cropVars, titleVars, batchVars, chunkVars>>

\* the first caller renders clip 01_a into out1; the second may use the same
\* or another base name and output directory.  opt_fails: the single-pass
\* command of this job exits non-zero
ConcInit ==
    /\ PipeIdle /\ CapIdle /\ CropIdle /\ TitleIdle /\ BatchIdle /\ ChunkIdle
    /\ conc_jobs \in
         { <<a, b>> :
             a \in [video : {"segment_1.mp4"}, base : {"01_a"}, output_dir : {"out1"},
                    opt_fails : BOOLEAN],
             b \in [video : {"segment_2.mp4"}, base : {"01_a", "02_b"},
                    output_dir : {"out1", "out2"}, opt_fails : BOOLEAN] }
    /\ conc_pc = [j \in Callers |-> "start"]
    /\ disk = <<>>
    /\ accesses = {}
    /\ conc_result = [j \in Callers |-> NoResult]

\* lines 430-441: the caption file of the optimized path
ConcOptCaptions(j) ==
    /\ conc_pc[j] = "start"
    /\ disk' = WriteFile(disk, ConcSubtitlePath(j), "captions_" \o ToString(j))
    /\ accesses' = accesses \cup {Access(j, ConcSubtitlePath(j), "w")}
    /\ conc_pc' = [conc_pc EXCEPT ![j] = "opt_run"]
    /\ UNCHANGED <<conc_jobs, conc_result, notConcVars>>

\* lines 485-507: the single-pass command reads the segment and the caption
\* file and writes the final video, or fails
ConcOptRun(j) ==
    /\ conc_pc[j] = "opt_run"
    /\ IF conc_jobs[j].opt_fails
       THEN /\ disk' = disk
            /\ conc_pc' = [conc_pc EXCEPT ![j] = "seq_vertical"]
       ELSE /\ disk' = WriteFile(disk, ConcFinalPath(j),
                          "single(" \o conc_jobs[j].video \o ","
                             \o ReadFile(disk, ConcSubtitlePath(j)) \o ")")
            /\ conc_pc' = [conc_pc EXCEPT ![j] = "opt_finish"]
    /\ accesses' = accesses
         \cup {Access(j, ConcSubtitlePath(j), "r")}
         \cup (IF conc_jobs[j].opt_fails THEN {}
               ELSE {Access(j, ConcFinalPath(j), "w")})
    /\ UNCHANGED <<conc_jobs, conc_result, notConcVars>>

\* the thumbnail and the caption text of either path (509-541, 615-647)
ConcFinish(j) ==
    /\ conc_pc[j] \in {"opt_finish", "seq_finish"}
    /\ disk' = WriteFile(
                 WriteFile(disk, ConcThumbnailPath(j),
                           "thumb(" \o ReadFile(disk, ConcFinalPath(j)) \o ")"),
                 ConcCaptionTextPath(j), "text_" \o ToString(j))
    /\ accesses' = accesses
         \cup {Access(j, ConcFinalPath(j), "r"), Access(j, ConcThumbnailPath(j), "w"),
               Access(j, ConcCaptionTextPath(j), "w")}
    /\ conc_result' = [conc_result EXCEPT ![j] = ConcResult(j)]
    /\ conc_pc' = [conc_pc EXCEPT ![j] = "done"]
    /\ UNCHANGED <<conc_jobs, notConcVars>>

\* lines 580-582: convert_to_vertical
ConcSeqVertical(j) ==
    /\ conc_pc[j] = "seq_vertical"
    /\ disk' = WriteFile(disk, ConcVerticalPath(j),
                         "vertical(" \o conc_jobs[j].video \o ")")
    /\ accesses' = accesses \cup {Access(j, ConcVerticalPath(j), "w")}
    /\ conc_pc' = [conc_pc EXCEPT ![j] = "seq_captions"]
    /\ UNCHANGED <<conc_jobs, conc_result, notConcVars>>

\* lines 584-595: the caption file is generated again
ConcSeqCaptions(j) ==
    /\ conc_pc[j] = "seq_captions"
    /\ disk' = WriteFile(disk, ConcSubtitlePath(j), "captions_" \o ToString(j))
    /\ accesses' = accesses \cup {Access(j, ConcSubtitlePath(j), "w")}
    /\ conc_pc' = [conc_pc EXCEPT ![j] = "seq_burn"]
    /\ UNCHANGED <<conc_jobs, conc_result, notConcVars>>

\* lines 597-600: burn_captions reads the cropped video and the caption file
ConcSeqBurn(j) ==
    /\ conc_pc[j] = "seq_burn"
    /\ disk' = WriteFile(disk, ConcCaptionedPath(j),
                         "burn(" \o ReadFile(disk, ConcVerticalPath(j)) \o ","
                            \o ReadFile(disk, ConcSubtitlePath(j)) \o ")")
    /\ accesses' = accesses
         \cup {Access(j, ConcVerticalPath(j), "r"), Access(j, ConcSubtitlePath(j), "r"),
               Access(j, ConcCaptionedPath(j), "w")}
    /\ conc_pc' = [conc_pc EXCEPT ![j] = "seq_mix"]
    /\ UNCHANGED <<conc_jobs, conc_result, notConcVars>>

\* lines 604-613: add_background_music (or the copy) reads the captioned video
ConcSeqMix(j) ==
    /\ conc_pc[j] = "seq_mix"
    /\ disk' = WriteFile(disk, ConcFinalPath(j),
                         "mix(" \o ReadFile(disk, ConcCaptionedPath(j)) \o ")")
    /\ accesses' = accesses
         \cup {Access(j, ConcCaptionedPath(j), "r"), Access(j, ConcFinalPath(j), "w")}
    /\ conc_pc' = [conc_pc EXCEPT ![j] = "seq_finish"]
    /\ UNCHANGED <<conc_jobs, conc_result, notConcVars>>

ConcNext ==
    \E j \in Callers :
        \/ ConcOptCaptions(j) \/ ConcOptRun(j) \/ ConcFinish(j)
        \/ ConcSeqVertical(j) \/ ConcSeqCaptions(j) \/ ConcSeqBurn(j) \/ ConcSeqMix(j)

SpecConc == ConcInit /\ [][ConcNext]_vars

(***************************************************************************)
(* C25  create_final_clip is safe under concurrent invocation provided     *)
(* each job uses distinct temp and output paths: in every interleaving of  *)
(* the stages of two such jobs no file written by one job is written or    *)
(* read by the other, and each job's result equals what it produces when   *)
(* run alone.                                                              *)
(***************************************************************************)
\* the temp and output paths of a job, from its base name and directory
TempPathsOf(j) ==
    {TempDir \o "/" \o conc_jobs[j].base \o e :
        e \in {".ass", "_vertical.mp4", "_captioned.mp4"}}
OutputPathsOf(j) ==
    {conc_jobs[j].output_dir \o "/" \o conc_jobs[j].base \o e :
        e \in {".mp4", "_thumbnail.jpg", "_caption.txt"}}
DistinctPaths ==
    \A j, k \in Callers :
        j # k => (TempPathsOf(j) \cup OutputPathsOf(j))
                    \cap (TempPathsOf(k) \cup OutputPathsOf(k)) = {}

\* what the job leaves when it is the only one running
AloneVideo(j) ==
    IF conc_jobs[j].opt_fails
    THEN "mix(burn(vertical(" \o conc_jobs[j].video \o "),captions_"
            \o ToString(j) \o "))"
    ELSE "single(" \o conc_jobs[j].video \o ",captions_" \o ToString(j) \o ")"
AloneResult(j) ==
    LET stem == conc_jobs[j].output_dir \o "/" \o conc_jobs[j].base
    IN  [video |-> stem \o ".mp4", thumbnail |-> stem \o "_thumbnail.jpg",
         caption_file |-> stem \o "_caption.txt"]

C25_DistinctPathsIsolateJobs ==
    (conc_pc # <<>> /\ DistinctPaths) =>
        /\ \A a, b \in accesses :
             (a.caller # b.caller /\ a.path = b.path) => (a.mode = "r" /\ b.mode = "r")
        /\ \A a \in accesses : a.path \in TempPathsOf(a.caller) \cup OutputPathsOf(a.caller)
        /\ \A j \in Callers :
             conc_pc[j] = "done" =>
                /\ conc_result[j] = AloneResult(j)
                /\ ReadFile(disk, conc_result[j].video) = AloneVideo(j)
                /\ ReadFile(disk, conc_result[j].thumbnail)
                     = "thumb(" \o AloneVideo(j) \o ")"
                /\ ReadFile(disk, conc_result[j].caption_file) = "text_" \o ToString(j)

\* both jobs have returned, one through the fallback, into the same output
\* directory under different base names
C25_Witness ==
    /\ conc_pc = [j \in Callers |-> "done"]
    /\ DistinctPaths
    /\ conc_jobs[1].opt_fails /\ ~conc_jobs[2].opt_fails
    /\ conc_jobs[1].output_dir = conc_jobs[2].output_dir

(***************************************************************************)
(* transcribe_audio (ai_logic.py 70-186): an audio file longer than one    *)
(* chunk is cut into chunks that a pool of worker threads transcribes.     *)
(* Times are whole seconds.                                                *)
(***************************************************************************)
ChunkIndices == 0..(num_chunks - 1)

\* tasks.append((i, start_ts, end_ts)) of lines 139-143
StartTs(i) == i * ChunkDuration

\* what _transcribe_chunk returns for chunk i: segments with times counted
\* from the start of the chunk file; an odd chunk holds one segment
ChunkSegments(i) ==
    IF i % 2 = 1
    THEN << [start |-> 0, end |-> 60, text |-> "chunk " \o ToString(i)] >>
    ELSE << [start |-> 0, end |-> 10 + i, text |-> "chunk " \o ToString(i)],
            [start |-> 10 + i, end |-> 20 + i, text |-> "more " \o ToString(i)] >>

\* the third element of what process_chunk_task returns: the dict of
\* _transcribe_chunk or None; Pending before the task has returned
Pending == [kind |-> "pending", why |-> None, segments |-> <<>>]
Failed(why) == [kind |-> "None", why |-> why, segments |-> <<>>]
Transcribed(i) == [kind |-> "dict", why |-> None, segments |-> ChunkSegments(i)]
ChunkOutcomes(i) == {Failed("extract"), Failed("transcribe"), Transcribed(i)}

Running == {i \in ChunkIndices : chunk_state[i] = "running"}
Queued == {i \in ChunkIndices : chunk_state[i] = "queued"}

\* line 148
PoolSize == Min(MaxWorkers, num_chunks)

notChunkVars == <<pipeVars, capVars, cropVars, titleVars, batchVars, concVars>>

\* lines 98-152: duration > chunk_duration, so at least two chunks; every
\* task has been submitted to the executor
ChunkInit ==
    /\ PipeIdle /\ CapIdle /\ CropIdle /\ TitleIdle /\ BatchIdle /\ ConcIdle
    /\ num_chunks \in 2..MaxChunks
    /\ chunk_pc = "pool"
    /\ chunk_state = [i \in 0..(num_chunks - 1) |-> "queued"]
    /\ chunk_res = [i \in 0..(num_chunks - 1) |-> Pending]
    /\ results = <<>> /\ all_segments = <<>>

\* ThreadPoolExecutor: a free worker takes the task submitted first
ChunkStart(i) ==
    /\ chunk_pc = "pool"
    /\ i \in Queued /\ \A k \in Queued : i <= k
    /\ Cardinality(Running) < PoolSize
    /\ chunk_state' = [chunk_state EXCEPT ![i] = "running"]
    /\ UNCHANGED <<num_chunks, chunk_pc, chunk_res, results, all_segments, notChunkVars>>

\* lines 113-136, process_chunk_task: extraction and transcription inside
\* try; any exception makes the task return None in place of the dict
ChunkFinish(i) ==
    /\ chunk_pc = "pool"
    /\ i \in Running
    /\ \E out \in ChunkOutcomes(i) : chunk_res' = [chunk_res EXCEPT ![i] = out]
    /\ chunk_state' = [chunk_state EXCEPT ![i] = "finished"]
    /\ UNCHANGED <<num_chunks, chunk_pc, results, all_segments, notChunkVars>>

\* lines 154-160: as_completed hands over a finished future; a result that
\* is not None is appended
ChunkCollect(i) ==
    /\ chunk_pc = "pool"
    /\ chunk_state[i] = "finished"
    /\ results' = IF chunk_res[i].kind = "dict"
                  THEN Append(results,
                              [idx |-> i, start_ts |-> StartTs(i), res |-> chunk_res[i]])
                  ELSE results
    /\ chunk_state' = [chunk_state EXCEPT ![i] = "collected"]
    /\ UNCHANGED <<num_chunks, chunk_pc, chunk_res, all_segments, notChunkVars>>

\* a merge that takes the results as they came in
SortByIdxKeepsOrder(rs) == rs

\* line 163: results.sort(key=lambda x: x[0])
SortByIdx(rs) ==
    LET Rank(k) == Cardinality({m \in DOMAIN rs : rs[m].idx < rs[k].idx}) + 1
    IN  [p \in DOMAIN rs |-> rs[CHOOSE k \in DOMAIN rs : Rank(k) = p]]

\* lines 168-171: seg["start"] += start_ts; seg["end"] += start_ts
ShiftSegment(seg, start_ts) ==
    [seg EXCEPT !.start = @ + start_ts, !.end = @ + start_ts]

\* lines 166-172: the segments of the results, in the order of the results
RECURSIVE MergeSegments(_)
MergeSegments(rs) ==
    IF rs = <<>> THEN <<>>
    ELSE [k \in DOMAIN rs[1].res.segments |->
             ShiftSegment(rs[1].res.segments[k], rs[1].start_ts)]
         \o MergeSegments(Tail(rs))

\* lines 162-186: the pool is left when every future has been handled; the
\* results are sorted and merged
ChunkMerge ==
    /\ chunk_pc = "pool"
    /\ \A i \in ChunkIndices : chunk_state[i] = "collected"
    /\ results' = SortByIdx(results)
    /\ all_segments' = MergeSegments(SortByIdx(results))
    /\ chunk_pc' = "done"
    /\ UNCHANGED <<num_chunks, chunk_state, chunk_res, notChunkVars>>

ChunkNext ==
    \/ \E i \in ChunkIndices : ChunkStart(i) \/ ChunkFinish(i) \/ ChunkCollect(i)
    \/ ChunkMerge

SpecChunks == ChunkInit /\ [][ChunkNext]_vars

(***************************************************************************)
(* C30  In chunked transcription, whatever order the workers complete in,  *)
(* the merged segment list is ordered by chunk index, each segment's start *)
(* and end are shifted by its own chunk's start offset exactly once, a     *)
(* chunk whose extraction or transcription failed contributes no segments  *)
(* without failing the other chunks, and at most 3 chunks are processed at *)
(* the same time.                                                          *)
(***************************************************************************)
\* the segments chunk i contributes: its own, each moved by i * 300 s
ExpectedOf(i) ==
    IF chunk_res[i].kind = "dict"
    THEN [k \in DOMAIN ChunkSegments(i) |->
            [start |-> ChunkSegments(i)[k].start + i * 300,
             end |-> ChunkSegments(i)[k].end + i * 300,
             text |-> ChunkSegments(i)[k].text]]
    ELSE <<>>
RECURSIVE ExpectedUpTo(_)
ExpectedUpTo(i) ==
    IF i < 0 THEN <<>> ELSE ExpectedUpTo(i - 1) \o ExpectedOf(i)

C30_MergedInChunkOrder ==
    /\ chunk_pc # "idle" => Cardinality(Running) <= 3
    /\ chunk_pc = "done" =>
         /\ all_segments = ExpectedUpTo(num_chunks - 1)
         /\ \A k, m \in DOMAIN results : k < m => results[k].idx < results[m].idx

\* four chunks merged: chunk 1 failed in extraction, chunk 2 in transcription,
\* and the list holds the two segments of chunk 0 and the one of chunk 3
C30_Witness ==
    /\ chunk_pc = "done"
    /\ num_chunks = 4
    /\ chunk_res[1] = Failed("extract") /\ chunk_res[2] = Failed("transcribe")
    /\ Len(all_segments) = 3
    /\ all_segments[3].start = 3 * 300
====
